---- MODULE Spec2Model ----
(***************************************************************************)
(* A model of the security scanner's scan cache, worker pool, signature    *)
(* matcher and MCP multi-server scan loop.                                 *)
(*                                                                         *)
(* One specification per subsystem:                                        *)
(*   Spec       the scan cache across process invocations (ScanCache and   *)
(*              the cache-related lines of runScan)                        *)
(*   SpecPool   one target's plan scanned by the worker pool of runScan    *)
(*   SpecMatch  scanContent, one regex step at a time, over several files  *)
(*   SpecMcp    runMcpRemoteMultiScan's scan loop over the collected plans *)
(***************************************************************************)
EXTENDS Integers, Sequences, FiniteSets, TLC

VARIABLES
  \* ---- scan cache across process invocations (Spec)
  now,            \* Date.now(), in model ticks
  content,        \* the file system: path -> content or Unreadable
  disk,           \* scan-cache.json: path -> CacheEntry or NoEntry
  cache,          \* ScanCache.cache, the in-memory Map
  dirty,          \* ScanCache.dirty
  ruleVersion,    \* ScanCache.ruleVersion
  corpus,         \* the rule corpus loaded by this invocation of runScan
  useBehavioral,  \* options.useBehavioral of this invocation
  phase,          \* "down" | "running": whether a runScan invocation is active
  scanned,        \* paths of the plan already processed by this invocation
  inflight,       \* the path whose lookup missed and whose scan is under way ("": none)
  persisted,      \* history: the entry that exists for each path (stored and not evicted)
  lastLookup,     \* history: the last getCachedFindings call and its pre-state
  prevReport,     \* history: what the previous scan reported, per path
  curReport,      \* history: what this scan reported so far, per path
  loaded,         \* whether this invocation's `await cache.load()` has completed
  lastExit,       \* history: how the invocation that ended last did so (until the next starts)
  \* ---- worker pool of one target's plan (SpecPool)
  index,          \* runScan's shared `index`
  wpc,            \* worker -> position in the worker body
  wfile,          \* worker -> position in plan.files of the item it holds (0: none)
  wcached,        \* worker -> the entry getCachedFindings read before suspending
  wfindings,      \* worker -> fileFindings of the item it holds
  pcache,         \* the ScanCache map shared by the workers
  taken,          \* history: item -> how many times it was taken from the index
  stored,         \* history: item -> how many times setCachedFindings set it
  skillFindings,  \* runScan's skillFindings of this target
  onFileCount,    \* history: item -> tui.onFile calls
  outcome,        \* history: item -> "none" | "hit" | "scanned" | "threw"
  \* ---- signature matcher (SpecMatch)
  mfiles,         \* the files still to be scanned by this process
  mcontent,       \* content of the file being scanned
  mpath,          \* filePath of the file being scanned
  mfileType,      \* fileType of the files scanned
  mrule,          \* index into rules of the rule being applied
  mpat,           \* index into rule._compiled of the regex being applied
  lastIndex,      \* regex.lastIndex of the regex being applied
  ruleHits,       \* scanContent's ruleHits
  mfindings,      \* scanContent's findings of the file being scanned
  exLastIndex,    \* rule -> exclude pattern -> lastIndex of that compiled regex
  mpc,            \* position in scanContent
  mlast,          \* history: the last regex.exec result and what was done with it
  mreturned,      \* history: per scanContent call that returned, its arguments and findings
  \* ---- MCP multi-server scan (SpecMcp)
  servers,        \* runMcpRemoteMultiScan's servers argument: their URLs
  plans,          \* collectedPlans: per server collected so far, the virtual files
  enableMeta,     \* options.enableMeta
  planIdx,        \* the loop variable i
  itemIdx,        \* position in plan.files
  targetFindings, \* findings of the current target
  allFindings,    \* findings over all targets
  mcpPc,          \* position in runMcpRemoteMultiScan
  result,         \* the ScanResult's findings once returned
  resultTargets,  \* the targets of the ScanResult once returned
  \* ---- runScan's progress events (SpecScan)
  scanPlans,      \* per target: its files and whether the parallel branch is taken
  tgt,            \* the loop variable i of the target loop, from 1
  pendingItems,   \* items of the current target whose processing has not completed
  events,         \* what the progress sink (ScanUi) has observed, in order
  scanPc,         \* position in runScan
  scannedFiles,   \* the ScanResult's scannedFiles once returned
  \* ---- rule compilation (SpecRules)
  rawRules,      \* the rules file, parsed: one record per YAML entry
  compiledRules, \* what loadRulesFromText returned
  rulesPc,       \* whether loadRulesFromText has run
  \* ---- high-entropy heuristic (SpecHeur)
  hContent,      \* the file's text as its maximal runs of token characters, in order
  hBehavioral,   \* options.useBehavioral
  hCandidates,   \* extractCandidateStrings' result
  hPos,          \* the candidate the loop of detectHighEntropyStrings is at, from 1
  hFindings,     \* detectHighEntropyStrings' findings array
  hPc,           \* position in the heuristic part of scanFile
  hResult,       \* heuristicFindings once scanFile has them
  \* ---- line numbers of findings (SpecLines)
  lnContent,     \* the content scanContent was given
  lnIndex,       \* buildLineIndex' result
  lnLast,        \* the last regex match and the finding pushed for it, if any
  lnPc,          \* position in scanContent
  \* ---- MCP collection over JSON-RPC (SpecRpc)
  cScan,         \* the categories the scan option asks for
  cPc,           \* the call collectFromServer is at
  cCollected,    \* per category, what the collector holds for it
  cNotFound,     \* categories whose list call was answered with JSON-RPC error -32601
  cFailedAt,     \* the call whose error ended the collection, if any
  cLast,         \* what the last rpc call returned or threw
  \* ---- one rpc call in time (SpecCall)
  rTimeout,      \* options.timeoutMs, in ticks
  rElapsed,      \* ticks since the call began
  rPhase,        \* where the call is: awaiting fetch, awaiting res.text(), or ended
  rTimer,        \* the timeout timer: armed, fired or cleared
  rStatus,       \* the HTTP status once the response's head has arrived
  rOutcome,      \* how the call ended: what it returned or threw
  \* ---- exit code (SpecExit)
  xFindings,     \* the severities of result.findings, in order
  xFailOn,       \* options.failOn
  xExitCode,     \* process.exitCode
  xPc,           \* whether the fail condition has been checked
  \* ---- scan storage (SpecStore)
  dbForeignKeys, \* whether the SQLite build enforces foreign keys by default
  maxScans,      \* this.maxScans
  scans,         \* the rows of table scans: id and timestamp
  findingRows,   \* the scan_id of each row of table findings
  targetRows,    \* the scan_id of each row of table targets
  dbClock,       \* Date.now(), in ticks
  nextScanId,    \* ids handed out so far
  lastOp,        \* the last operation and the scans it removed
  \* ---- scan comparison (SpecCompare)
  cmpBaseline,   \* the findings of the stored baseline scan, or NoScan
  cmpCurrent,    \* the findings of the stored current scan, or NoScan
  cmpResult,     \* what compare returned
  cmpPc,         \* position of compare
  \* ---- runScan's findings list (SpecRun)
  runPlans,      \* scanPlans: the files of each target
  runMeta,       \* options.enableMeta
  runTarget,     \* the target the loop is at
  runPending,    \* files of the target not yet scanned
  targetSkillFindings, \* skillFindings of the target
  runFindings,   \* findings, pushed target by target
  rawFindings,   \* history: every finding in the order it was produced
  filteredFindings, \* the findings list of the result
  runPc,         \* position in runScan
  \* ---- candidate extraction, match by match (SpecExtract)
  exTokens,      \* how many matches of the candidate pattern the content holds
  exScanned,   \* matches regex.exec has returned so far
  exCandidates,  \* candidates.length
  exPc,          \* position in extractCandidateStrings
  \* ---- ScanCache calls on one file (SpecHash)
  hcNow,         \* Date.now(), in milliseconds
  hcContent,     \* the file's content now, or Unreadable
  hcEntry,       \* this.cache.get(filePath), or NoEntry
  hcLast,        \* the last getCachedFindings call
  \* ---- watch mode (SpecWatch)
  wArmed,        \* whether the debounce timer is set and has not fired
  wRemaining,    \* ticks until the timer fires
  wEvents,       \* filesystem events so far
  wBursts,       \* history: events that found no timer pending
  wStarted,      \* re-scans started so far
  wRunning,      \* the re-scans in progress, by start number
  wBaseline,     \* the scan whose findings previousKeys holds (0: the initial scan)
  wOutOfOrder    \* history: previousKeys was replaced by an older scan's findings

cacheVars == <<now, content, disk, cache, dirty, ruleVersion, corpus, useBehavioral,
               phase, scanned, inflight, persisted, lastLookup, prevReport, curReport,
               loaded, lastExit>>
poolVars  == <<index, wpc, wfile, wcached, wfindings, pcache, taken, stored,
               skillFindings, onFileCount, outcome>>
matchVars == <<mfiles, mcontent, mpath, mfileType, mrule, mpat, lastIndex, ruleHits, mfindings,
               exLastIndex, mpc, mlast, mreturned>>
mcpVars   == <<servers, plans, enableMeta, planIdx, itemIdx, targetFindings, allFindings,
               mcpPc, result, resultTargets>>
scanVars  == <<scanPlans, tgt, pendingItems, events, scanPc, scannedFiles>>
ruleVars == <<rawRules, compiledRules, rulesPc>>
heurVars == <<hContent, hBehavioral, hCandidates, hPos, hFindings, hPc, hResult>>
lineVars == <<lnContent, lnIndex, lnLast, lnPc>>
rpcVars == <<cScan, cPc, cCollected, cNotFound, cFailedAt, cLast>>
callVars == <<rTimeout, rElapsed, rPhase, rTimer, rStatus, rOutcome>>
exitVars == <<xFindings, xFailOn, xExitCode, xPc>>
storeVars == <<dbForeignKeys, maxScans, scans, findingRows, targetRows, dbClock, nextScanId, lastOp>>
cmpVars == <<cmpBaseline, cmpCurrent, cmpResult, cmpPc>>
runVars == <<runPlans, runMeta, runTarget, runPending, targetSkillFindings, runFindings, rawFindings, filteredFindings, runPc>>
exVars == <<exTokens, exScanned, exCandidates, exPc>>
hcVars == <<hcNow, hcContent, hcEntry, hcLast>>
watchVars == <<wArmed, wRemaining, wEvents, wBursts, wStarted, wRunning, wBaseline, wOutOfOrder>>
vars == <<cacheVars, poolVars, matchVars, mcpVars, scanVars, ruleVars, heurVars, lineVars, rpcVars, callVars, exitVars, storeVars, cmpVars, runVars, exVars, hcVars, watchVars>>

(***************************************************************************)
(* Bounds of the model.                                                    *)
(***************************************************************************)
MaxTime == 3
CacheMaxAge == 1

Paths == {"p1"}
Unreadable == "unreadable"
Contents == {"c1", "c2"}
Corpora == {"R1", "R2"}

(***************************************************************************)
(* Scan cache                                                              *)
(***************************************************************************)
CacheOnly == UNCHANGED <<poolVars, matchVars, mcpVars, scanVars, ruleVars, heurVars, lineVars, rpcVars, callVars, exitVars, storeVars, cmpVars, runVars, exVars, hcVars, watchVars>>

NoEntry == [present |-> FALSE, hash |-> <<>>, findings |-> <<>>, timestamp |-> 0,
            ruleVersion |-> "", corpus |-> ""]

NoLookup == [path |-> "", hit |-> FALSE, findings |-> <<>>, entry |-> NoEntry,
             at |-> 0, ruleVersion |-> "", hashNow |-> <<>>, corpus |-> "",
             foundCorpus |-> "", evicted |-> FALSE, loaded |-> FALSE]

NoExit == [how |-> "none", inflight |-> "", dirty |-> FALSE, wrote |-> FALSE]

NoReport == [done |-> FALSE, content |-> "", ruleVersion |-> "", corpus |-> "",
             behavioural |-> FALSE, findings |-> <<>>]

\* runScan constructs the cache with the literal "1.0", whatever rules were loaded.
RunScanRuleVersion(k) == "1.0"

\* What scanFile returns for a file: a function of the content, the rule corpus and
\* options.useBehavioral, and nothing else. An unreadable file makes scanFile throw.
ScanFile(p, c, k, b) ==
  <<[file |-> p, content |-> c, corpus |-> k, behavioural |-> b]>>

\* ScanCache.hashFile: SHA-256 of the bytes, or "error-<path>-<Date.now()>".
HashFile(p, c, t) ==
  IF c = Unreadable THEN <<"error", p, t>> ELSE <<"sha256", c>>

\* ScanCache.load: the test an entry of the file must pass to enter the map.
LoadKeeps(e, rv, t) ==
  e.present /\ e.ruleVersion = rv /\ t - e.timestamp < CacheMaxAge

Load(d, rv, t) ==
  [p \in Paths |-> IF LoadKeeps(d[p], rv, t) THEN d[p] ELSE NoEntry]

\* ScanCache.getCachedFindings: the three checks an entry passes to be returned.
LookupHits(e, rv, t, h) ==
  /\ e.present
  /\ e.ruleVersion = rv
  /\ ~(t - e.timestamp > CacheMaxAge)
  /\ e.hash = h

\* ScanCache.setCachedFindings: the entry written for a file.
NewEntry(h, f, t, rv, k) ==
  [present |-> TRUE, hash |-> h, findings |-> f, timestamp |-> t,
   ruleVersion |-> rv, corpus |-> k]

\* An entry written to the cache file by a build whose rule version was "0.9".
LegacyEntry ==
  NewEntry(<<"sha256", "c1">>, <<>>, 0, "0.9", "R1")

CacheInit ==
  /\ now = 0
  /\ content = [p \in Paths |-> "c1"]
  /\ disk \in {[p \in Paths |-> NoEntry], [p \in Paths |-> LegacyEntry]}
  /\ cache = [p \in Paths |-> NoEntry]
  /\ dirty = FALSE
  /\ ruleVersion = ""
  /\ corpus = "R1"
  /\ useBehavioral = FALSE
  /\ phase = "down"
  /\ scanned = {}
  /\ inflight = ""
  /\ persisted = disk
  /\ lastLookup = NoLookup
  /\ prevReport = [p \in Paths |-> NoReport]
  /\ curReport = [p \in Paths |-> NoReport]
  /\ loaded = FALSE
  /\ lastExit = NoExit

\* runScan up to and including `await cache.load()`.
StartProcess(k, b) ==
  /\ phase = "down"
  /\ phase' = "running"
  /\ corpus' = k
  /\ useBehavioral' = b
  /\ ruleVersion' = RunScanRuleVersion(k)
  /\ cache' = Load(disk, RunScanRuleVersion(k), now)
  /\ dirty' = FALSE
  /\ scanned' = {}
  /\ inflight' = ""
  /\ persisted' = disk
  /\ prevReport' = curReport
  /\ curReport' = [p \in Paths |-> NoReport]
  /\ loaded' = TRUE
  /\ lastExit' = NoExit
  /\ UNCHANGED <<now, content, disk, lastLookup>>
  /\ CacheOnly

\* runScan's worker up to the answer of `await cache.getCachedFindings(filePath)`.
Lookup(p) ==
  /\ phase = "running"
  /\ inflight = ""
  /\ p \notin scanned
  /\ LET e   == cache[p]
         h   == HashFile(p, content[p], now)
         hit == LookupHits(e, ruleVersion, now, h)
     IN /\ cache' = [cache EXCEPT ![p] = IF hit THEN e ELSE NoEntry]
        /\ persisted' = [persisted EXCEPT ![p] = IF hit THEN @ ELSE NoEntry]
        /\ dirty' = (dirty \/ (e.present /\ ~hit))
        /\ lastLookup' = [path |-> p, hit |-> hit,
                          findings |-> IF hit THEN e.findings ELSE <<>>,
                          entry |-> persisted[p], at |-> now,
                          ruleVersion |-> ruleVersion, hashNow |-> h,
                          corpus |-> corpus,
                          foundCorpus |-> IF hit THEN e.corpus ELSE "",
                          evicted |-> ~hit, loaded |-> loaded]
        /\ IF hit
           THEN /\ scanned' = scanned \cup {p}
                /\ inflight' = ""
                /\ curReport' = [curReport EXCEPT
                     ![p] = [done |-> TRUE, content |-> content[p],
                             ruleVersion |-> ruleVersion, corpus |-> corpus,
                             behavioural |-> useBehavioral, findings |-> e.findings]]
           ELSE /\ inflight' = p
                /\ UNCHANGED <<scanned, curReport>>
  /\ UNCHANGED <<now, content, disk, ruleVersion, corpus, useBehavioral, phase, prevReport,
                 loaded, lastExit>>
  /\ CacheOnly

\* The worker after a miss: scanFile, then setCachedFindings. On an unreadable file
\* scanFile throws when the file has a known type (readText throws), which the worker
\* catches, storing nothing; for a file of type "text" the failed probe returns [],
\* which is stored. `probed` says which of the two the file is.
Rescan(p, probed) ==
  /\ phase = "running"
  /\ inflight = p
  /\ LET ok     == content[p] # Unreadable
         throws == ~ok /\ ~probed
         f      == IF ok THEN ScanFile(p, content[p], corpus, useBehavioral) ELSE <<>>
         ne     == NewEntry(HashFile(p, content[p], now), f, now, ruleVersion, corpus)
     IN /\ cache' = [cache EXCEPT ![p] = IF throws THEN @ ELSE ne]
        /\ persisted' = [persisted EXCEPT ![p] = IF throws THEN @ ELSE ne]
        /\ dirty' = (dirty \/ ~throws)
        /\ curReport' = [curReport EXCEPT
             ![p] = [done |-> TRUE, content |-> content[p],
                     ruleVersion |-> ruleVersion, corpus |-> corpus,
                     behavioural |-> useBehavioral, findings |-> f]]
  /\ scanned' = scanned \cup {p}
  /\ inflight' = ""
  /\ UNCHANGED <<now, content, disk, ruleVersion, corpus, useBehavioral, phase,
                 prevReport, lastLookup, loaded, lastExit>>
  /\ CacheOnly

SaveWritesMutant(d) == TRUE

\* ScanCache.save: `if (!this.dirty) return;`, otherwise the file is written.
SaveWrites(d) == d

\* runScan's `await cache.save()` and return: the file is rewritten from the map
\* when the cache is dirty.
FinishScan ==
  /\ phase = "running"
  /\ scanned = Paths
  /\ phase' = "down"
  /\ disk' = IF SaveWrites(dirty) THEN cache ELSE disk
  /\ dirty' = FALSE
  /\ loaded' = FALSE
  /\ lastExit' = [how |-> "returned", inflight |-> inflight, dirty |-> dirty,
                  wrote |-> SaveWrites(dirty)]
  /\ UNCHANGED <<now, content, cache, ruleVersion, corpus, useBehavioral, scanned,
                 inflight, persisted, lastLookup, prevReport, curReport>>
  /\ CacheOnly

\* A SIGINT, SIGTERM or SIGHUP arrives during the scan: the handler the TUI registered
\* restores the cursor and calls process.exit(0). What the process held in memory is
\* gone, the cache file is as it was, and the scan reports nothing.
Interrupt ==
  /\ phase = "running"
  /\ phase' = "down"
  /\ cache' = [p \in Paths |-> NoEntry]
  /\ dirty' = FALSE
  /\ scanned' = {}
  /\ inflight' = ""
  /\ persisted' = disk
  /\ curReport' = prevReport
  /\ loaded' = FALSE
  /\ lastExit' = [how |-> "signal", inflight |-> inflight, dirty |-> dirty, wrote |-> FALSE]
  /\ UNCHANGED <<now, content, disk, ruleVersion, corpus, useBehavioral, lastLookup,
                 prevReport>>
  /\ CacheOnly

\* The clock advances.
Tick ==
  /\ now < MaxTime
  /\ now' = now + 1
  /\ UNCHANGED <<content, disk, cache, dirty, ruleVersion, corpus, useBehavioral, phase,
                 scanned, inflight, persisted, lastLookup, prevReport, curReport,
                 loaded, lastExit>>
  /\ CacheOnly

\* A file is edited, removed or made unreadable between two scans.
ModifyFile(p, c) ==
  /\ phase = "down"
  /\ content[p] # c
  /\ content' = [content EXCEPT ![p] = c]
  /\ UNCHANGED <<now, disk, cache, dirty, ruleVersion, corpus, useBehavioral, phase,
                 scanned, inflight, persisted, lastLookup, prevReport, curReport,
                 loaded, lastExit>>
  /\ CacheOnly

CacheNext ==
  \/ \E k \in Corpora, b \in BOOLEAN : StartProcess(k, b)
  \/ \E p \in Paths : Lookup(p)
  \/ \E p \in Paths, probed \in BOOLEAN : Rescan(p, probed)
  \/ FinishScan
  \/ Interrupt
  \/ Tick
  \/ \E p \in Paths, c \in Contents \cup {Unreadable} : ModifyFile(p, c)


(***************************************************************************)
(* Worker pool: the cached sequential branch of runScan for one plan.      *)
(* plan.files holds distinct paths (collectFiles builds it from a Set), so *)
(* an item is named by its position 1..NumFiles.                           *)
(***************************************************************************)
NumFiles == 4
HardwareConcurrency == 8
\* Date.now() while the pool runs, in model ticks.
PoolNow == CacheMaxAge + 1

PoolOnly == UNCHANGED <<cacheVars, matchVars, mcpVars, scanVars, ruleVars, heurVars, lineVars, rpcVars, callVars, exitVars, storeVars, cmpVars, runVars, exVars, hcVars, watchVars>>

Min(a, b) == IF a < b THEN a ELSE b
Max(a, b) == IF a > b THEN a ELSE b

\* const concurrency = Math.min(32, Math.max(4, Math.floor(cores / 2)))
Concurrency(cores) == Min(32, Max(4, cores \div 2))

Workers == 1..Concurrency(HardwareConcurrency)
Files == 1..NumFiles

\* The SHA-256 of item i's bytes, which do not change while the pool runs.
PoolHash(i) == <<"sha256", i>>

\* What scanFile returns for item i when it does not throw.
PoolFindings(i) == IF i % 2 = 1 THEN <<[file |-> i, ruleId |-> "r"]>> ELSE <<>>

PoolEntry(h, f, t) ==
  [present |-> TRUE, hash |-> h, findings |-> f, timestamp |-> t,
   ruleVersion |-> "1.0", corpus |-> ""]

\* The entry the loaded cache holds for item i when the pool starts: one that is
\* still valid, one whose hash is of older bytes, none, or one that has expired.
StartEntry(i) ==
  CASE i % 4 = 1 -> PoolEntry(PoolHash(i), PoolFindings(i), PoolNow)
    [] i % 4 = 2 -> PoolEntry(<<"sha256", 0>>, <<[file |-> i, ruleId |-> "old"]>>, PoolNow)
    [] i % 4 = 3 -> NoEntry
    [] OTHER     -> PoolEntry(PoolHash(i), PoolFindings(i), PoolNow - CacheMaxAge - 1)

NextIndexMutant(i) == i + 2

\* `index++`
NextIndex(i) == i + 1

DeleteEntryMutant(map, i) == [j \in DOMAIN map |-> NoEntry]

\* this.cache.delete(filePath)
DeleteEntry(map, i) == [map EXCEPT ![i] = NoEntry]

\* this.cache.set(filePath, entry)
SetEntry(map, i, e) == [map EXCEPT ![i] = e]

PoolInit ==
  /\ index = 0
  /\ wpc = [w \in Workers |-> "take"]
  /\ wfile = [w \in Workers |-> 0]
  /\ wcached = [w \in Workers |-> NoEntry]
  /\ wfindings = [w \in Workers |-> <<>>]
  /\ pcache = [i \in Files |-> StartEntry(i)]
  /\ taken = [i \in Files |-> 0]
  /\ stored = [i \in Files |-> 0]
  /\ skillFindings = <<>>
  /\ onFileCount = [i \in Files |-> 0]
  /\ outcome = [i \in Files |-> "none"]

\* `while (index < plan.files.length) { const filePath = plan.files[index++];` and
\* the call of getCachedFindings up to its first suspension: the map is read, a
\* missing entry returns null, an expired one is deleted and returns null, and
\* otherwise the call suspends in `await this.hashFile(filePath)`.
Take(w) ==
  /\ wpc[w] = "take"
  /\ index < NumFiles
  /\ LET i == index + 1
         e == IF i \in Files THEN pcache[i] ELSE NoEntry
         expired == e.present /\ PoolNow - e.timestamp > CacheMaxAge
     IN /\ index' = NextIndex(index)
        /\ wfile' = [wfile EXCEPT ![w] = i]
        /\ taken' = [taken EXCEPT ![i] = @ + 1]
        /\ wcached' = [wcached EXCEPT ![w] = e]
        /\ pcache' = IF expired THEN DeleteEntry(pcache, i) ELSE pcache
        /\ wpc' = [wpc EXCEPT ![w] = IF e.present /\ ~expired THEN "hashing" ELSE "miss"]
  /\ UNCHANGED <<wfindings, stored, skillFindings, onFileCount, outcome>>
  /\ PoolOnly

\* The worker finds the plan exhausted and returns.
Leave(w) ==
  /\ wpc[w] = "take"
  /\ ~(index < NumFiles)
  /\ wpc' = [wpc EXCEPT ![w] = "done"]
  /\ UNCHANGED <<index, wfile, wcached, wfindings, pcache, taken, stored, skillFindings,
                 onFileCount, outcome>>
  /\ PoolOnly

\* getCachedFindings resumes with the hash: a changed file's entry is deleted and
\* the lookup is a miss, otherwise the entry's findings are returned.
LookupResume(w) ==
  /\ wpc[w] = "hashing"
  /\ LET i   == wfile[w]
         hit == wcached[w].hash = PoolHash(i)
     IN /\ pcache' = IF hit THEN pcache ELSE DeleteEntry(pcache, i)
        /\ wfindings' = [wfindings EXCEPT ![w] = IF hit THEN wcached[w].findings ELSE <<>>]
        /\ wpc' = [wpc EXCEPT ![w] = IF hit THEN "push" ELSE "miss"]
        /\ outcome' = [outcome EXCEPT ![i] = IF hit THEN "hit" ELSE @]
  /\ UNCHANGED <<index, wfile, wcached, taken, stored, skillFindings, onFileCount>>
  /\ PoolOnly

\* `fileFindings = await scanFile(...)` ends: with the findings, after which
\* setCachedFindings is called and suspends in hashFile, or with an exception,
\* which the worker's catch swallows.
ScanFileEnds(w, throws) ==
  /\ wpc[w] = "miss"
  /\ LET i == wfile[w]
     IN /\ wfindings' = [wfindings EXCEPT ![w] = IF throws THEN <<>> ELSE PoolFindings(i)]
        /\ wpc' = [wpc EXCEPT ![w] = IF throws THEN "finally" ELSE "storing"]
        /\ outcome' = [outcome EXCEPT ![i] = IF throws THEN "threw" ELSE "scanned"]
  /\ UNCHANGED <<index, wfile, wcached, pcache, taken, stored, skillFindings, onFileCount>>
  /\ PoolOnly

\* setCachedFindings resumes with the hash and sets the entry.
StoreResume(w) ==
  /\ wpc[w] = "storing"
  /\ LET i == wfile[w]
     IN /\ pcache' = SetEntry(pcache, i, PoolEntry(PoolHash(i), wfindings[w], PoolNow))
        /\ stored' = [stored EXCEPT ![i] = @ + 1]
  /\ wpc' = [wpc EXCEPT ![w] = "push"]
  /\ UNCHANGED <<index, wfile, wcached, wfindings, taken, skillFindings, onFileCount, outcome>>
  /\ PoolOnly

\* `if (fileFindings.length) skillFindings.push(...fileFindings)`, then the finally
\* block's tui.onFile(filePath).
Push(w) ==
  /\ wpc[w] = "push"
  /\ skillFindings' = skillFindings \o wfindings[w]
  /\ onFileCount' = [onFileCount EXCEPT ![wfile[w]] = @ + 1]
  /\ wpc' = [wpc EXCEPT ![w] = "take"]
  /\ wfile' = [wfile EXCEPT ![w] = 0]
  /\ wfindings' = [wfindings EXCEPT ![w] = <<>>]
  /\ wcached' = [wcached EXCEPT ![w] = NoEntry]
  /\ UNCHANGED <<index, pcache, taken, stored, outcome>>
  /\ PoolOnly

\* The catch and finally blocks after scanFile threw: tui.onFile(filePath) only.
Finally(w) ==
  /\ wpc[w] = "finally"
  /\ onFileCount' = [onFileCount EXCEPT ![wfile[w]] = @ + 1]
  /\ wpc' = [wpc EXCEPT ![w] = "take"]
  /\ wfile' = [wfile EXCEPT ![w] = 0]
  /\ wfindings' = [wfindings EXCEPT ![w] = <<>>]
  /\ wcached' = [wcached EXCEPT ![w] = NoEntry]
  /\ UNCHANGED <<index, pcache, taken, stored, skillFindings, outcome>>
  /\ PoolOnly

PoolNext ==
  \/ \E w \in Workers : Take(w)
  \/ \E w \in Workers : Leave(w)
  \/ \E w \in Workers : LookupResume(w)
  \/ \E w \in Workers, throws \in BOOLEAN : ScanFileEnds(w, throws)
  \/ \E w \in Workers : StoreResume(w)
  \/ \E w \in Workers : Push(w)
  \/ \E w \in Workers : Finally(w)

\* `await Promise.all(...)` has returned.
PoolDone == \A w \in Workers : wpc[w] = "done"

(***************************************************************************)
(* Signature matcher: loadRulesFromText's compiled rules and scanContent.  *)
(***************************************************************************)
MaxRep == 22

MAX_FINDINGS_PER_RULE_PER_FILE == 20

MatchOnly == UNCHANGED <<cacheVars, poolVars, mcpVars, scanVars, ruleVars, heurVars, lineVars, rpcVars, callVars, exitVars, storeVars, cmpVars, runVars, exVars, hcVars, watchVars>>

\* Contents are sequences of characters; "n" stands for the newline.
Rep(w, n) == [k \in 1..(n * Len(w)) |-> w[((k - 1) % Len(w)) + 1]]

Words == {<<"a">>, <<"b">>, <<"a", "b", "n">>}

FileContents == {Rep(w, n) : w \in Words, n \in 0..MaxRep}

ShortContents == {Rep(w, 1) : w \in Words}

\* A compiled pattern: the literal `word`, or `ch*` (which can match the empty
\* string). Both carry the flag "g", as every regex loadRulesFromText compiles.
Lit(word) == [kind |-> "lit", word |-> word]

Star(ch) == [kind |-> "star", word |-> <<ch>>]

LitAt(word, s, i) ==
  /\ i + Len(word) <= Len(s)
  /\ \A k \in 1..Len(word) : s[i + k] = word[k]

RECURSIVE RunLength(_, _, _)
RunLength(ch, s, i) ==
  IF i < Len(s) /\ s[i + 1] = ch THEN 1 + RunLength(ch, s, i + 1) ELSE 0

RECURSIVE FirstLitFrom(_, _, _)
FirstLitFrom(word, s, i) ==
  IF i + Len(word) > Len(s) THEN -1
  ELSE IF LitAt(word, s, i) THEN i
  ELSE FirstLitFrom(word, s, i + 1)

NoMatch == [found |-> FALSE, index |-> 0, len |-> 0, next |-> 0]

\* RegExp.prototype.exec of a global regex: the search starts at lastIndex; a
\* failure (or a lastIndex past the end) sets lastIndex to 0, a match sets it to the
\* match's end. Positions count from 0.
Exec(re, s, li) ==
  IF li > Len(s) THEN NoMatch
  ELSE IF re.kind = "star"
       THEN LET l == RunLength(re.word[1], s, li)
            IN [found |-> TRUE, index |-> li, len |-> l, next |-> li + l]
       ELSE LET i == FirstLitFrom(re.word, s, li)
            IN IF i < 0 THEN NoMatch
               ELSE [found |-> TRUE, index |-> i, len |-> Len(re.word),
                     next |-> i + Len(re.word)]

MatchText(s, m) == SubSeq(s, m.index + 1, m.index + m.len)

\* The compiled rules: id, file_types, _compiled, _excludeCompiled.
Rules ==
  << [id |-> "r1", file_types |-> {"any"},
      compiled |-> <<Lit(<<"a">>), Lit(<<"b">>)>>, excludeCompiled |-> <<>>],
     [id |-> "r2", file_types |-> {"markdown", "python"},
      compiled |-> <<Star("a")>>, excludeCompiled |-> <<Lit(<<"n">>)>>],
     [id |-> "r3", file_types |-> {"markdown"},
      compiled |-> <<Lit(<<"a", "b">>)>>, excludeCompiled |-> <<Lit(<<"z">>), Lit(<<"b">>)>>],
     [id |-> "r4", file_types |-> {"python"},
      compiled |-> <<Lit(<<"b", "n">>)>>, excludeCompiled |-> <<>>] >>

\* buildLineIndex: the position after every newline, after 0.
RECURSIVE BuildLineIndexFrom(_, _)
BuildLineIndexFrom(s, i) ==
  IF i >= Len(s) THEN <<>>
  ELSE (IF s[i + 1] = "n" THEN <<i + 1>> ELSE <<>>) \o BuildLineIndexFrom(s, i + 1)

BuildLineIndex(s) == <<0>> \o BuildLineIndexFrom(s, 0)

\* indexToLine's binary search over lineIndex (a 0-based array: lineIndex[mid] is
\* the sequence's element mid + 1).
RECURSIVE LineSearch(_, _, _, _)
LineSearch(lineIndex, position, low, high) ==
  IF low > high THEN low
  ELSE LET mid == (low + high) \div 2
       IN IF lineIndex[mid + 1] <= position
          THEN LineSearch(lineIndex, position, mid + 1, high)
          ELSE LineSearch(lineIndex, position, low, mid - 1)

IndexToLine(lineIndex, position) ==
  Max(1, LineSearch(lineIndex, position, 0, Len(lineIndex) - 1))

IsFileTypeMatch(rule, fileType) ==
  fileType \in rule.file_types \/ "any" \in rule.file_types

\* `rule._excludeCompiled.some((re) => re.test(match))`: the regexes are tested in
\* order up to the first that matches, and each test starts at that regex's
\* lastIndex and leaves it at the match's end, or at 0 after a failure.
RECURSIVE SomeTest(_, _, _, _)
SomeTest(res, lis, text, k) ==
  IF k > Len(res) THEN [hit |-> FALSE, lis |-> lis]
  ELSE LET m == Exec(res[k], text, lis[k])
       IN IF m.found
          THEN [hit |-> TRUE, lis |-> [lis EXCEPT ![k] = m.next]]
          ELSE SomeTest(res, [lis EXCEPT ![k] = 0], text, k + 1)

IsExcluded(rule, lis, text) == SomeTest(rule.excludeCompiled, lis, text, 1)

\* Whether one of the rule's exclude patterns matches the text.
AnyExcludeMatches(rule, text) ==
  \E k \in 1..Len(rule.excludeCompiled) : Exec(rule.excludeCompiled[k], text, 0).found

\* `regex.lastIndex++` after a zero-width match.
AfterEmptyMutant(li) == li

AfterEmpty(li) == li + 1

\* `ruleHits >= MAX_FINDINGS_PER_RULE_PER_FILE`
CapReachedMutant(hits) == hits > MAX_FINDINGS_PER_RULE_PER_FILE

CapReached(hits) == hits >= MAX_FINDINGS_PER_RULE_PER_FILE

SignatureFinding(rule, path, line) ==
  [ruleId |-> rule.id, file |-> path, line |-> line, message |-> <<"Matched rule", rule.id>>,
   source |-> "signature"]

NoExec == [kind |-> "none", rule |-> 0, pat |-> 0, text |-> <<>>, index |-> 0, more |-> FALSE]

FileLists ==
  {<<[path |-> "f1", content |-> c]>> : c \in FileContents}
  \cup {<<[path |-> "f1", content |-> c], [path |-> "f1", content |-> c]>> :
          c \in ShortContents}
  \cup {<<[path |-> "f1", content |-> c1], [path |-> "f2", content |-> c2]>> :
          c1 \in ShortContents, c2 \in FileContents}

MatchInit ==
  /\ mfiles \in FileLists
  /\ mfileType \in {"markdown", "python"}
  /\ mcontent = <<>>
  /\ mpath = ""
  /\ mrule = 0
  /\ mpat = 0
  /\ lastIndex = 0
  /\ ruleHits = 0
  /\ mfindings = <<>>
  /\ exLastIndex = [r \in DOMAIN Rules |-> [k \in DOMAIN Rules[r].excludeCompiled |-> 0]]
  /\ mpc = "file"
  /\ mlast = NoExec
  /\ mreturned = <<>>

\* scanContent is called for the next file: `findings = []`, and the rule loop starts.
StartFile ==
  /\ mpc = "file"
  /\ mfiles # <<>>
  /\ mcontent' = Head(mfiles).content
  /\ mpath' = Head(mfiles).path
  /\ mfiles' = Tail(mfiles)
  /\ mfindings' = <<>>
  /\ mrule' = 1
  /\ mpc' = "rule"
  /\ mlast' = NoExec
  /\ UNCHANGED <<mfileType, mpat, lastIndex, ruleHits, exLastIndex>>
  /\ UNCHANGED mreturned
  /\ MatchOnly

\* `if (!isFileTypeMatch(rule, fileType)) continue;`
SkipRule ==
  /\ mpc = "rule"
  /\ mrule <= Len(Rules)
  /\ ~IsFileTypeMatch(Rules[mrule], mfileType)
  /\ mrule' = mrule + 1
  /\ UNCHANGED <<mfiles, mcontent, mpath, mfileType, mpat, lastIndex, ruleHits, mfindings,
                 exLastIndex, mpc, mlast>>
  /\ UNCHANGED mreturned
  /\ MatchOnly

\* `let ruleHits = 0;` and the loop over rule._compiled starts.
BeginRule ==
  /\ mpc = "rule"
  /\ mrule <= Len(Rules)
  /\ IsFileTypeMatch(Rules[mrule], mfileType)
  /\ ruleHits' = 0
  /\ mpat' = 1
  /\ mpc' = "pattern"
  /\ UNCHANGED <<mfiles, mcontent, mpath, mfileType, mrule, lastIndex, mfindings,
                 exLastIndex, mlast>>
  /\ UNCHANGED mreturned
  /\ MatchOnly

\* `regex.lastIndex = 0;` for the next regex of the rule.
BeginPattern ==
  /\ mpc = "pattern"
  /\ mpat <= Len(Rules[mrule].compiled)
  /\ lastIndex' = 0
  /\ mpc' = "exec"
  /\ mlast' = NoExec
  /\ UNCHANGED <<mfiles, mcontent, mpath, mfileType, mrule, mpat, ruleHits, mfindings,
                 exLastIndex>>
  /\ UNCHANGED mreturned
  /\ MatchOnly

\* The rule has no further regex: the next rule.
EndRule ==
  /\ mpc = "pattern"
  /\ mpat > Len(Rules[mrule].compiled)
  /\ mrule' = mrule + 1
  /\ mpc' = "rule"
  /\ UNCHANGED <<mfiles, mcontent, mpath, mfileType, mpat, lastIndex, ruleHits, mfindings,
                 exLastIndex, mlast>>
  /\ UNCHANGED mreturned
  /\ MatchOnly

\* `regex.exec(content)` returns null: the while loop ends, the cap is not reached,
\* and the next regex follows.
ExecNoMatch ==
  /\ mpc = "exec"
  /\ LET m == Exec(Rules[mrule].compiled[mpat], mcontent, lastIndex)
     IN /\ ~m.found
        /\ lastIndex' = m.next
        /\ mlast' = [NoExec EXCEPT !.kind = "null", !.rule = mrule, !.pat = mpat]
  /\ mpat' = mpat + 1
  /\ mpc' = "pattern"
  /\ UNCHANGED <<mfiles, mcontent, mpath, mfileType, mrule, ruleHits, mfindings, exLastIndex>>
  /\ UNCHANGED mreturned
  /\ MatchOnly

\* `if (match[0].length === 0) { regex.lastIndex++; continue; }`
ExecEmpty ==
  /\ mpc = "exec"
  /\ LET m == Exec(Rules[mrule].compiled[mpat], mcontent, lastIndex)
     IN /\ m.found
        /\ m.len = 0
        /\ lastIndex' = AfterEmpty(m.next)
        /\ mlast' = [kind |-> "empty", rule |-> mrule, pat |-> mpat, text |-> <<>>,
                     index |-> m.index, more |-> FALSE]
  /\ UNCHANGED <<mfiles, mcontent, mpath, mfileType, mrule, mpat, ruleHits, mfindings,
                 exLastIndex, mpc>>
  /\ UNCHANGED mreturned
  /\ MatchOnly

\* `if (isExcluded(rule, match[0])) continue;` with isExcluded true.
ExecExcluded ==
  /\ mpc = "exec"
  /\ LET m == Exec(Rules[mrule].compiled[mpat], mcontent, lastIndex)
         x == IsExcluded(Rules[mrule], exLastIndex[mrule], MatchText(mcontent, m))
     IN /\ m.found
        /\ m.len > 0
        /\ x.hit
        /\ lastIndex' = m.next
        /\ exLastIndex' = [exLastIndex EXCEPT ![mrule] = x.lis]
        /\ mlast' = [kind |-> "excluded", rule |-> mrule, pat |-> mpat,
                     text |-> MatchText(mcontent, m), index |-> m.index, more |-> FALSE]
  /\ UNCHANGED <<mfiles, mcontent, mpath, mfileType, mrule, mpat, ruleHits, mfindings, mpc>>
  /\ UNCHANGED mreturned
  /\ MatchOnly

\* isExcluded is false: the finding is pushed, ruleHits is incremented, and at the
\* cap both loops are left for the next rule.
ExecEmit ==
  /\ mpc = "exec"
  /\ LET rule == Rules[mrule]
         m    == Exec(rule.compiled[mpat], mcontent, lastIndex)
         x    == IsExcluded(rule, exLastIndex[mrule], MatchText(mcontent, m))
         line == IndexToLine(BuildLineIndex(mcontent), m.index)
     IN /\ m.found
        /\ m.len > 0
        /\ ~x.hit
        /\ lastIndex' = m.next
        /\ exLastIndex' = [exLastIndex EXCEPT ![mrule] = x.lis]
        /\ mfindings' = Append(mfindings, SignatureFinding(rule, mpath, line))
        /\ ruleHits' = ruleHits + 1
        /\ IF CapReached(ruleHits + 1)
           THEN mrule' = mrule + 1 /\ mpc' = "rule"
           ELSE UNCHANGED <<mrule, mpc>>
        /\ mlast' = [kind |-> "emit", rule |-> mrule, pat |-> mpat,
                     text |-> MatchText(mcontent, m), index |-> m.index,
                     more |-> \/ Exec(rule.compiled[mpat], mcontent, m.next).found
                              \/ mpat < Len(rule.compiled)]
  /\ UNCHANGED <<mfiles, mcontent, mpath, mfileType, mpat>>
  /\ UNCHANGED mreturned
  /\ MatchOnly

\* `return findings;` after the last rule; the process goes on to its next file.
ReturnFindings ==
  /\ mpc = "rule"
  /\ mrule > Len(Rules)
  /\ mpc' = IF mfiles = <<>> THEN "done" ELSE "file"
  /\ UNCHANGED <<mfiles, mcontent, mpath, mfileType, mrule, mpat, lastIndex, ruleHits,
                 mfindings, exLastIndex, mlast>>
  /\ mreturned' = Append(mreturned, [path |-> mpath, content |-> mcontent,
                                      findings |-> mfindings])
  /\ MatchOnly

MatchNext ==
  \/ StartFile
  \/ SkipRule
  \/ BeginRule
  \/ BeginPattern
  \/ EndRule
  \/ ExecNoMatch
  \/ ExecEmpty
  \/ ExecExcluded
  \/ ExecEmit
  \/ ReturnFindings

\* Order-insensitive equality of two lists of findings.
SameMultiset(a, b) ==
  \A f \in {a[k] : k \in DOMAIN a} \cup {b[k] : k \in DOMAIN b} :
    Cardinality({k \in DOMAIN a : a[k] = f}) = Cardinality({k \in DOMAIN b : b[k] = f})

\* Signature findings of the file being scanned that carry the rule's id.
RuleFindingCount(id) ==
  Cardinality({k \in 1..Len(mfindings) : mfindings[k].ruleId = id})

(***************************************************************************)
(* Meta-analyzer                                                           *)
(***************************************************************************)
\* The key applyMetaAnalyzer builds: `${ruleId}|${file}|${line ?? ""}|${message}`.
Fingerprint(f) == <<f.ruleId, f.file, f.line, f.message>>

RECURSIVE DedupeFrom(_, _, _)
DedupeFrom(fs, k, seen) ==
  IF k > Len(fs) THEN <<>>
  ELSE IF Fingerprint(fs[k]) \in seen THEN DedupeFrom(fs, k + 1, seen)
  ELSE <<fs[k]>> \o DedupeFrom(fs, k + 1, seen \cup {Fingerprint(fs[k])})

\* applyMetaAnalyzer: the first finding of every key, in insertion order.
ApplyMetaAnalyzer(fs) == DedupeFrom(fs, 1, {})

NoDuplicateFingerprints(fs) ==
  \A i, j \in 1..Len(fs) : Fingerprint(fs[i]) = Fingerprint(fs[j]) => i = j

(***************************************************************************)
(* MCP multi-server scan: runMcpRemoteMultiScan after rule loading.        *)
(***************************************************************************)
MaxServers == 3

McpOnly == UNCHANGED <<cacheVars, poolVars, matchVars, scanVars, ruleVars, heurVars, lineVars, rpcVars, callVars, exitVars, storeVars, cmpVars, runVars, exVars, hcVars, watchVars>>

\* The servers a config may name. "u3" does not answer.
Urls == {"u1", "u2", "u3"}

HostOf(u) == IF u = "u3" THEN "h3" ELSE "h1"

\* What collectFromServer gets from a server: its tools, each with what scanning
\* its text does ("clean": no finding, "risky": one finding, "twice": the same rule
\* matching twice on one line, "throws": scanContentItem raises).
ServerTools(u) ==
  CASE u = "u1" -> <<[name |-> "exec", scan |-> "risky"], [name |-> "ls", scan |-> "clean"]>>
    [] u = "u2" -> <<[name |-> "fetch", scan |-> "twice"], [name |-> "bad", scan |-> "throws"]>>
    [] OTHER    -> <<>>

CollectFails(u) == u = "u3"

\* virtualizeRemote: one virtual file per tool, at mcp://<host>/tools/<name>.
VirtualizeRemote(u) ==
  [k \in 1..Len(ServerTools(u)) |->
     [virtualPath |-> <<"mcp", HostOf(u), "tools", ServerTools(u)[k].name>>,
      scan |-> ServerTools(u)[k].scan]]

CollectPlanMutant(u) ==
  [name |-> HostOf(u), files |-> VirtualizeRemote(u), error |-> FALSE]

\* The plan runMcpRemoteMultiScan pushes for a server: the virtual files, or no
\* files and an error in the target's meta when collection threw.
CollectPlan(u) ==
  IF CollectFails(u)
  THEN [name |-> u, files |-> <<>>, error |-> TRUE]
  ELSE [name |-> HostOf(u), files |-> VirtualizeRemote(u), error |-> FALSE]

\* plan.target as the ScanResult's targets list holds it
PlanTarget(plan) == [name |-> plan.name, error |-> plan.error]

McpFinding(path, rule) ==
  [ruleId |-> rule, file |-> path, line |-> 1, message |-> "Matched rule", source |-> "signature"]

\* scanContentItem(item, rules, options) when it returns.
ScanContentItem(item) ==
  CASE item.scan = "risky" -> <<McpFinding(item.virtualPath, "r1")>>
    [] item.scan = "twice" -> <<McpFinding(item.virtualPath, "r2"),
                                McpFinding(item.virtualPath, "r2")>>
    [] OTHER               -> <<>>

ServerLists == UNION {[1..n -> Urls] : n \in 1..MaxServers}

McpInit ==
  /\ servers \in ServerLists
  /\ plans = <<>>
  /\ enableMeta \in BOOLEAN
  /\ planIdx = 1
  /\ itemIdx = 0
  /\ targetFindings = <<>>
  /\ allFindings = <<>>
  /\ mcpPc = "collect"
  /\ result = <<>>
  /\ resultTargets = <<>>

\* One pass of `for (const server of servers) { try { collectFromServer ... }
\* catch { ... } }`: a plan is pushed either way. After the last server the
\* target loop starts.
McpCollect ==
  /\ mcpPc = "collect"
  /\ Len(plans) < Len(servers)
  /\ plans' = Append(plans, CollectPlan(servers[Len(plans) + 1]))
  /\ mcpPc' = IF Len(plans) + 1 = Len(servers) THEN "target" ELSE "collect"
  /\ UNCHANGED <<servers, enableMeta, planIdx, itemIdx, targetFindings, allFindings, result,
                 resultTargets>>
  /\ McpOnly

\* `for (let i = 0; ...) { const plan = collectedPlans[i]; ... targetFindings = []`
McpBeginTarget ==
  /\ mcpPc = "target"
  /\ planIdx <= Len(plans)
  /\ targetFindings' = <<>>
  /\ itemIdx' = 1
  /\ mcpPc' = "items"
  /\ UNCHANGED <<servers, plans, enableMeta, planIdx, allFindings, result, resultTargets>>
  /\ McpOnly

\* One pass of `for (const item of plan.files) { try { ... } finally { ... } }`:
\* there is no catch, so what scanContentItem throws leaves the function.
McpScanItem ==
  /\ mcpPc = "items"
  /\ itemIdx <= Len(plans[planIdx].files)
  /\ LET item == plans[planIdx].files[itemIdx]
     IN IF item.scan = "throws"
        THEN /\ mcpPc' = "aborted"
             /\ UNCHANGED <<targetFindings, itemIdx>>
        ELSE /\ targetFindings' = targetFindings \o ScanContentItem(item)
             /\ itemIdx' = itemIdx + 1
             /\ UNCHANGED mcpPc
  /\ UNCHANGED <<servers, plans, enableMeta, planIdx, allFindings, result, resultTargets>>
  /\ McpOnly

\* After the items: the per-target meta filter, and allFindings.push(...).
McpCompleteTarget ==
  /\ mcpPc = "items"
  /\ itemIdx > Len(plans[planIdx].files)
  /\ allFindings' = allFindings \o
       (IF enableMeta THEN ApplyMetaAnalyzer(targetFindings) ELSE targetFindings)
  /\ planIdx' = planIdx + 1
  /\ mcpPc' = "target"
  /\ UNCHANGED <<servers, plans, enableMeta, itemIdx, targetFindings, result, resultTargets>>
  /\ McpOnly

\* After the targets: `findings: allFindings` is returned as it stands.
McpReturn ==
  /\ mcpPc = "target"
  /\ planIdx > Len(plans)
  /\ result' = allFindings
  /\ resultTargets' = [k \in DOMAIN plans |-> PlanTarget(plans[k])]
  /\ mcpPc' = "returned"
  /\ UNCHANGED <<servers, plans, enableMeta, planIdx, itemIdx, targetFindings, allFindings>>
  /\ McpOnly

McpNext ==
  \/ McpCollect
  \/ McpBeginTarget
  \/ McpScanItem
  \/ McpCompleteTarget
  \/ McpReturn

(***************************************************************************)
(* runScan's target loop as the progress sink sees it.                     *)
(***************************************************************************)
MaxPlanFiles == 2

ScanOnly == UNCHANGED <<cacheVars, poolVars, matchVars, mcpVars, ruleVars, heurVars, lineVars, rpcVars, callVars, exitVars, storeVars, cmpVars, runVars, exVars, hcVars, watchVars>>

\* What happens to an item: "hit" (the cache returns its findings), "risky" (a miss,
\* scanFile returns findings), "unreadable" (a miss, scanFile throws and the item has
\* no findings, which is also what the sink sees of a miss without findings).
ItemKinds == {"hit", "risky", "unreadable"}

PlanFiles == UNION {[1..n -> ItemKinds] : n \in 0..MaxPlanFiles}

\* A plan and the value of useParallel for it.
ScanPlanSet == [files : PlanFiles, parallel : BOOLEAN]

\* One target, or two.
ScanPlanLists == {<<p>> : p \in ScanPlanSet} \cup {<<p, q>> : p, q \in ScanPlanSet}

RECURSIVE TotalFiles(_, _)
TotalFiles(ps, k) == IF k > Len(ps) THEN 0 ELSE Len(ps[k].files) + TotalFiles(ps, k + 1)

Event(type, t, i) == [type |-> type, target |-> t, item |-> i]

HasFindings(kind) == kind \in {"hit", "risky"}

\* tui.onFindings(fileFindings) when the item has findings.
OnFindings(t, i, kind) == IF HasFindings(kind) THEN <<Event("findings", t, i)>> ELSE <<>>

OnFileMutant(t, i, kind) == IF kind = "unreadable" THEN <<>> ELSE <<Event("file", t, i)>>

\* tui.onFile(filePath), in the worker's finally block.
OnFile(t, i, kind) == <<Event("file", t, i)>>

WorkersFinishedMutant(pending) == TRUE

\* `await Promise.all(...)`: every worker has returned, so no item is unfinished.
WorkersFinished(pending) == pending = {}

RECURSIVE FileEventsOf(_, _, _, _)
\* The parallel branch's tui.onFile calls, in plan order, for the items that were
\* (cached = TRUE) or were not (cached = FALSE) answered by the cache.
FileEventsOf(t, files, k, cached) ==
  IF k > Len(files) THEN <<>>
  ELSE (IF (files[k] = "hit") = cached THEN OnFile(t, k, files[k]) ELSE <<>>)
       \o FileEventsOf(t, files, k + 1, cached)

\* The parallel branch of one target: the cache is asked for every file, the misses
\* are scanned by scanFilesParallel, and the sink is told afterwards.
ParallelEvents(t, files) ==
  LET uncached == {k \in DOMAIN files : files[k] # "hit"}
      cachedF  == \E k \in DOMAIN files : files[k] = "hit"
      newF     == \E k \in uncached : HasFindings(files[k])
  IN FileEventsOf(t, files, 1, TRUE)
     \o (IF uncached # {}
         THEN FileEventsOf(t, files, 1, FALSE)
              \o (IF newF THEN <<Event("findings", t, 0)>> ELSE <<>>)
         ELSE (IF cachedF THEN <<Event("findings", t, 0)>> ELSE <<>>))

ScanInit ==
  /\ scanPlans \in ScanPlanLists
  /\ tgt = 0
  /\ pendingItems = {}
  /\ events = <<>>
  /\ scanPc = "init"
  /\ scannedFiles = 0

\* tui.start(totalFiles, scanPlans.length)
TuiStart ==
  /\ scanPc = "init"
  /\ events' = Append(events, Event("start", 0, 0))
  /\ tgt' = 1
  /\ scanPc' = "target"
  /\ UNCHANGED <<scanPlans, pendingItems, scannedFiles>>
  /\ ScanOnly

\* tui.beginTarget(...) for the next plan, and the choice of the branch.
BeginTarget ==
  /\ scanPc = "target"
  /\ tgt <= Len(scanPlans)
  /\ events' = Append(events, Event("begin_target", tgt, 0))
  /\ pendingItems' = DOMAIN scanPlans[tgt].files
  /\ scanPc' = IF scanPlans[tgt].parallel THEN "parallel" ELSE "pool"
  /\ UNCHANGED <<scanPlans, tgt, scannedFiles>>
  /\ ScanOnly

\* A worker of the pool completes item i: onFindings when there are findings, then
\* onFile in the finally block. Items are taken in plan order by `concurrency`
\* workers, so i is one of the first `concurrency` unfinished items.
WorkerCompletesItem(i) ==
  /\ scanPc = "pool"
  /\ i \in pendingItems
  /\ Cardinality({j \in pendingItems : j < i}) < Concurrency(HardwareConcurrency)
  /\ LET kind == scanPlans[tgt].files[i]
     IN events' = events \o OnFindings(tgt, i, kind) \o OnFile(tgt, i, kind)
  /\ pendingItems' = pendingItems \ {i}
  /\ UNCHANGED <<scanPlans, tgt, scanPc, scannedFiles>>
  /\ ScanOnly

\* The parallel branch of the current target, which runs on runScan's own flow.
ParallelBranch ==
  /\ scanPc = "parallel"
  /\ events' = events \o ParallelEvents(tgt, scanPlans[tgt].files)
  /\ pendingItems' = {}
  /\ scanPc' = "pool"
  /\ UNCHANGED <<scanPlans, tgt, scannedFiles>>
  /\ ScanOnly

\* After the branch: the per-target meta filter and tui.completeTarget(...).
CompleteTarget ==
  /\ scanPc = "pool"
  /\ WorkersFinished(pendingItems)
  /\ events' = Append(events, Event("complete_target", tgt, 0))
  /\ tgt' = tgt + 1
  /\ scanPc' = "target"
  /\ UNCHANGED <<scanPlans, pendingItems, scannedFiles>>
  /\ ScanOnly

\* After the last target: cache.save(), tui.finish(), and the result with
\* `scannedFiles: totalFiles`.
TuiFinish ==
  /\ scanPc = "target"
  /\ tgt > Len(scanPlans)
  /\ events' = Append(events, Event("finish", 0, 0))
  /\ scannedFiles' = TotalFiles(scanPlans, 1)
  /\ scanPc' = "returned"
  /\ UNCHANGED <<scanPlans, tgt, pendingItems>>
  /\ ScanOnly

ScanNext ==
  \/ TuiStart
  \/ BeginTarget
  \/ \E i \in 1..MaxPlanFiles : WorkerCompletesItem(i)
  \/ ParallelBranch
  \/ CompleteTarget
  \/ TuiFinish

(***************************************************************************)
(* Rule compilation: loadRulesFromText (scan-file.ts).                     *)
(***************************************************************************)
RulesOnly == UNCHANGED <<cacheVars, poolVars, matchVars, mcpVars, scanVars, heurVars, lineVars, rpcVars, callVars, exitVars, storeVars, cmpVars, runVars, exVars, hcVars, watchVars>>

MaxPatterns == 2

\* Pattern sources of a rules file: a plain one, one with the PCRE inline
\* flag (?i), and one RegExp rejects (an unterminated group).
PatternSources == {"a", "(?i)a", "("}

NoRegExp == [source |-> "", flags |-> ""]

\* new RegExp(normalized, flags) inside the try: (?i) is cut out of the
\* source and turns the flags into "gi"; a SyntaxError gives null.
CompilePattern(pattern) ==
  IF pattern = "(" THEN NoRegExp
  ELSE IF pattern = "(?i)a" THEN [source |-> "a", flags |-> "gi"]
  ELSE [source |-> pattern, flags |-> "g"]

\* .map(compile).filter(Boolean)
RECURSIVE CompileAll(_)
CompileAll(patterns) ==
  IF patterns = <<>> THEN <<>>
  ELSE LET re == CompilePattern(Head(patterns))
       IN  (IF re = NoRegExp THEN <<>> ELSE <<re>>) \o CompileAll(Tail(patterns))

PatternLists ==
  UNION {[1..n -> PatternSources] : n \in 0..MaxPatterns}

\* raw.patterns: absent, a scalar (truthy, not an array), or an array.
RawPatterns ==
  {[kind |-> k, items |-> <<>>] : k \in {"missing", "scalar"}}
    \cup {[kind |-> "array", items |-> p] : p \in PatternLists}

\* One entry of the YAML array.  complete: id, category, severity and
\* file_types are all present and truthy.
RawRuleSet ==
  [complete : BOOLEAN, patterns : RawPatterns,
   exclude_patterns : {<<>>, <<"(">>, <<"a">>}]

RawRuleLists ==
  {<<r>> : r \in RawRuleSet} \cup {<<r, q>> : r \in RawRuleSet, q \in RawRuleSet}

\* Array.isArray(raw.patterns) ? raw.patterns : []
PatternsArray(raw) ==
  IF raw.patterns.kind = "array" THEN raw.patterns.items ELSE <<>>

\* The continue of the loop: a required field is missing or falsy.  An empty
\* array is truthy, so patterns: [] does not skip the rule.
SkippedRaw(raw) == ~raw.complete \/ raw.patterns.kind = "missing"

\* rules.push follows the compilation with no condition on its result.
KeepsRule(raw, compiled) == TRUE

RECURSIVE LoadRulesFrom(_, _)
LoadRulesFrom(raws, k) ==
  IF k > Len(raws) THEN <<>>
  ELSE LET raw == raws[k]
           compiled == CompileAll(PatternsArray(raw))
           rule == [id |-> k, _compiled |-> compiled,
                    _excludeCompiled |-> CompileAll(raw.exclude_patterns)]
       IN  (IF ~SkippedRaw(raw) /\ KeepsRule(raw, compiled) THEN <<rule>> ELSE <<>>)
             \o LoadRulesFrom(raws, k + 1)

LoadRulesFromText(raws) == LoadRulesFrom(raws, 1)

RulesInit ==
  /\ rawRules \in RawRuleLists
  /\ compiledRules = <<>>
  /\ rulesPc = "parsed"

LoadCompiledRules ==
  /\ rulesPc = "parsed"
  /\ compiledRules' = LoadRulesFromText(rawRules)
  /\ rulesPc' = "loaded"
  /\ UNCHANGED rawRules
  /\ RulesOnly

RulesNext == LoadCompiledRules

(***************************************************************************)
(* The high-entropy heuristic: extractCandidateStrings,                    *)
(* detectHighEntropyStrings and their call from scanFile (scan-file.ts).   *)
(***************************************************************************)
HeurOnly == UNCHANGED <<cacheVars, poolVars, matchVars, mcpVars, scanVars, ruleVars, lineVars, rpcVars, callVars, exitVars, storeVars, cmpVars, runVars, exVars, hcVars, watchVars>>

MaxRun == 11

MAX_HEURISTIC_FINDINGS == 10
MinCandidateLength == 20
MaxCandidates == 2000
\* 4.2 bits, in hundredths of a bit
EntropyThreshold == 420

\* A maximal run of characters of [A-Za-z0-9+/_=-] in the text, by its length
\* and its Shannon entropy in hundredths of a bit.
Token(len, entropy) == [len |-> len, entropy |-> entropy]

Tokens ==
  { Token(MinCandidateLength - 1, 400),
    Token(MinCandidateLength, EntropyThreshold - 1),
    Token(MinCandidateLength, EntropyThreshold) }

HeurContents ==
  { [k \in 1..(n1 + n2) |-> IF k <= n1 THEN t1 ELSE t2] :
      <<t1, n1, t2, n2>> \in Tokens \X (0..MaxRun) \X Tokens \X (0..MaxRun) }

\* /[A-Za-z0-9+/_=\-]{20,}/g over the text: the runs of at least 20 characters,
\* in order; the loop breaks once the array holds more than 2000.
RECURSIVE ExtractFrom(_, _, _)
ExtractFrom(text, k, candidates) ==
  IF k > Len(text) \/ Len(candidates) > MaxCandidates THEN candidates
  ELSE ExtractFrom(text, k + 1,
                   IF text[k].len >= MinCandidateLength
                     THEN Append(candidates, text[k]) ELSE candidates)

ExtractCandidateStrings(text) == ExtractFrom(text, 1, <<>>)

EntropyFinding == [ruleId |-> "HEURISTIC_HIGH_ENTROPY_SECRET", source |-> "heuristic"]

HeuristicCapReachedMutant(n) == FALSE

\* findings.length >= MAX_HEURISTIC_FINDINGS, tested after each push
HeuristicCapReached(n) == n >= MAX_HEURISTIC_FINDINGS

HeurInit ==
  /\ hContent \in HeurContents
  /\ hBehavioral \in BOOLEAN
  /\ hCandidates = <<>>
  /\ hPos = 0
  /\ hFindings = <<>>
  /\ hPc = "scanFile"
  /\ hResult = <<>>

\* options?.useBehavioral is falsy: heuristicFindings = []
SkipHeuristics ==
  /\ hPc = "scanFile"
  /\ ~hBehavioral
  /\ hResult' = <<>>
  /\ hPc' = "done"
  /\ UNCHANGED <<hContent, hBehavioral, hCandidates, hPos, hFindings>>
  /\ HeurOnly

\* runHeuristics -> detectHighEntropyStrings: the candidates are extracted
ExtractCandidates ==
  /\ hPc = "scanFile"
  /\ hBehavioral
  /\ hCandidates' = ExtractCandidateStrings(hContent)
  /\ hPos' = 1
  /\ hPc' = "loop"
  /\ UNCHANGED <<hContent, hBehavioral, hFindings, hResult>>
  /\ HeurOnly

\* One iteration of the for loop over the candidates.
ExamineCandidate ==
  /\ hPc = "loop"
  /\ hPos <= Len(hCandidates)
  /\ LET candidate == hCandidates[hPos]
         flagged == candidate.len >= MinCandidateLength
                      /\ candidate.entropy >= EntropyThreshold
         pushed == IF flagged THEN Append(hFindings, EntropyFinding) ELSE hFindings
     IN  /\ hFindings' = pushed
         /\ IF flagged /\ HeuristicCapReached(Len(pushed))
              THEN hPc' = "return" /\ hPos' = hPos
              ELSE hPc' = "loop" /\ hPos' = hPos + 1
  /\ UNCHANGED <<hContent, hBehavioral, hCandidates, hResult>>
  /\ HeurOnly

\* The loop has ended or was left by break: the findings go back to scanFile.
ReturnHeuristics ==
  /\ \/ hPc = "return"
     \/ hPc = "loop" /\ hPos > Len(hCandidates)
  /\ hResult' = hFindings
  /\ hPc' = "done"
  /\ UNCHANGED <<hContent, hBehavioral, hCandidates, hPos, hFindings>>
  /\ HeurOnly

HeurNext ==
  \/ SkipHeuristics
  \/ ExtractCandidates
  \/ ExamineCandidate
  \/ ReturnHeuristics

(***************************************************************************)
(* Line numbers: buildLineIndex, indexToLine and the line scanContent      *)
(* gives a finding, over every content and every match a regex can return. *)
(***************************************************************************)
LinesOnly ==
  UNCHANGED <<cacheVars, poolVars, matchVars, mcpVars, scanVars, ruleVars, heurVars,
              rpcVars, callVars,
              exitVars,
              storeVars,
              cmpVars,
              runVars,
              exVars,
              hcVars,
              watchVars>>

MaxLineLen == 4

\* Contents over an ordinary character and the newline (written "n" as in the
\* matcher's contents): empty, with and without a trailing newline.
LineContents == UNION {[1..n -> {"a", "n"}] : n \in 0..MaxLineLen}

NoMatchSeen == [index |-> 0, length |-> 0, emitted |-> FALSE, line |-> 0]

SkipsEmptyMatchMutant(length) == FALSE

\* if (matchText.length === 0) { regex.lastIndex++; continue; }
SkipsEmptyMatch(length) == length = 0

LinesInit ==
  /\ lnContent \in LineContents
  /\ lnIndex = <<>>
  /\ lnLast = NoMatchSeen
  /\ lnPc = "scanContent"

\* const lineIndex = buildLineIndex(content)
BuildIndex ==
  /\ lnPc = "scanContent"
  /\ lnIndex' = BuildLineIndex(lnContent)
  /\ lnPc' = "matching"
  /\ UNCHANGED <<lnContent, lnLast>>
  /\ LinesOnly

\* regex.exec returned a match of `length` characters at offset `at`: an empty one
\* is skipped, any other gets its line from indexToLine and is pushed.
MatchAt(at, length) ==
  /\ lnPc = "matching"
  /\ at + length <= Len(lnContent)
  /\ lnLast' = IF SkipsEmptyMatch(length)
                 THEN [index |-> at, length |-> length, emitted |-> FALSE, line |-> 0]
                 ELSE [index |-> at, length |-> length, emitted |-> TRUE,
                       line |-> IndexToLine(lnIndex, at)]
  /\ UNCHANGED <<lnContent, lnIndex, lnPc>>
  /\ LinesOnly

LinesNext ==
  \/ BuildIndex
  \/ \E at \in 0..MaxLineLen, length \in 0..MaxLineLen : MatchAt(at, length)

(***************************************************************************)
(* The JSON-RPC client (client-http.ts) and the collector's list calls.    *)
(***************************************************************************)
RpcOnly ==
  UNCHANGED <<cacheVars, poolVars, matchVars, mcpVars, scanVars, ruleVars, heurVars,
              lineVars, callVars,
              exitVars,
              storeVars,
              cmpVars,
              runVars,
              exVars,
              hcVars,
              watchVars>>

METHOD_NOT_FOUND == -32601

\* The body of an HTTP response: nothing, text that is not JSON, or a JSON
\* object with a result, with an error (whose code may be absent), or neither.
Bodies ==
  {[kind |-> k, code |-> 0, hasCode |-> FALSE] : k \in {"empty", "garbage", "result", "bare"}}
    \cup {[kind |-> "error", code |-> c, hasCode |-> TRUE] : c \in {METHOD_NOT_FOUND, -32000}}
    \cup {[kind |-> "error", code |-> 0, hasCode |-> FALSE]}

\* What fetch gives: it throws (reached = FALSE), or a response with an HTTP
\* status and a body.
Responses ==
  {[reached |-> FALSE, status |-> 0, body |-> [kind |-> "empty", code |-> 0, hasCode |-> FALSE]]}
    \cup [reached : {TRUE}, status : {200, 404}, body : Bodies]

Returned == [threw |-> FALSE, code |-> 0, hasCode |-> FALSE]

\* new McpRpcError(message, { code, data })
McpRpcError(code, hasCode) == [threw |-> TRUE, code |-> code, hasCode |-> hasCode]

ErrorCodeMutant(resp) == resp.status

\* the code of the error rpc throws for a response that carries json.error:
\* err?.code ?? res.status when the status is not ok, err.code when it is
ErrorCode(resp) ==
  IF resp.body.hasCode THEN resp.body.code ELSE resp.status

\* rpc(url, method, params, options), by the response fetch got
rpc(resp) ==
  IF ~resp.reached THEN McpRpcError(0, FALSE)
  ELSE IF resp.body.kind = "garbage" THEN McpRpcError(resp.status, TRUE)
  ELSE IF resp.status # 200
    THEN IF resp.body.kind = "error" THEN McpRpcError(ErrorCode(resp), TRUE)
         ELSE McpRpcError(resp.status, TRUE)
  ELSE IF resp.body.kind = "error"
    THEN IF resp.body.hasCode THEN McpRpcError(ErrorCode(resp), TRUE)
         ELSE McpRpcError(0, FALSE)
  ELSE IF resp.body.kind \in {"empty", "bare"} THEN McpRpcError(0, FALSE)
  ELSE Returned

\* err instanceof McpRpcError && err.code === -32601
isMethodNotFound(err) == err.threw /\ err.hasCode /\ err.code = METHOD_NOT_FOUND

\* The list calls in the order the collector issues them.
ListCalls == <<"tools/list", "prompts/list", "resources/list">>

Categories == {ListCalls[k] : k \in DOMAIN ListCalls}

\* The first list call after position k that the scan option asks for.
RECURSIVE NextCall(_, _)
NextCall(scan, k) ==
  IF k >= Len(ListCalls) THEN "done"
  ELSE IF ListCalls[k + 1] \in scan THEN ListCalls[k + 1]
  ELSE NextCall(scan, k + 1)

CallIndex(method) == CHOOSE k \in DOMAIN ListCalls : ListCalls[k] = method

RpcInit ==
  /\ cScan \in SUBSET Categories
  /\ cPc = "initialize"
  /\ cCollected = [c \in Categories |-> "none"]
  /\ cNotFound = {}
  /\ cFailedAt = ""
  /\ cLast = Returned

\* collectFromServer's first call: initialize. Its error ends the collection.
Initialize(resp) ==
  /\ cPc = "initialize"
  /\ cLast' = rpc(resp)
  /\ IF rpc(resp).threw
       THEN cPc' = "failed" /\ cFailedAt' = "initialize"
       ELSE cPc' = NextCall(cScan, 0) /\ cFailedAt' = cFailedAt
  /\ UNCHANGED <<cScan, cCollected, cNotFound>>
  /\ RpcOnly

\* One list call: its result is kept; method-not-found leaves the category
\* empty and the collector goes on; any other error ends the collection.
ListCall(resp) ==
  /\ cPc \in Categories
  /\ LET r == rpc(resp)
     IN  /\ cLast' = r
         /\ cNotFound' = IF resp.reached /\ resp.body.kind = "error" /\ resp.body.hasCode
                            /\ resp.body.code = METHOD_NOT_FOUND
                          THEN cNotFound \cup {cPc} ELSE cNotFound
         /\ IF ~r.threw
              THEN /\ cCollected' = [cCollected EXCEPT ![cPc] = "listed"]
                   /\ cPc' = NextCall(cScan, CallIndex(cPc))
                   /\ cFailedAt' = cFailedAt
            ELSE IF isMethodNotFound(r)
              THEN /\ cCollected' = [cCollected EXCEPT ![cPc] = "empty"]
                   /\ cPc' = NextCall(cScan, CallIndex(cPc))
                   /\ cFailedAt' = cFailedAt
            ELSE /\ cCollected' = cCollected
                 /\ cPc' = "failed"
                 /\ cFailedAt' = cPc
  /\ UNCHANGED cScan
  /\ RpcOnly

RpcNext ==
  \/ \E resp \in Responses : Initialize(resp)
  \/ \E resp \in Responses : ListCall(resp)

(***************************************************************************)
(* One rpc call in time: the abort timer, fetch, and res.text().           *)
(***************************************************************************)
CallOnly ==
  UNCHANGED <<cacheVars, poolVars, matchVars, mcpVars, scanVars, ruleVars, heurVars,
              lineVars, rpcVars,
              exitVars,
              storeVars,
              cmpVars,
              runVars,
              exVars,
              hcVars,
              watchVars>>

MaxTimeoutTicks == 3

\* How a call ends: kind is "result", "McpRpcError", or "AbortError" (the
\* rejection of an aborted body read, which is not an McpRpcError).
\* code is the McpRpcError's code, 0 when it has none.
CallOutcome(kind, byTimeout, code) == [kind |-> kind, byTimeout |-> byTimeout, code |-> code]

StillPending == CallOutcome("pending", FALSE, 0)

CallInit ==
  /\ rTimeout \in 1..MaxTimeoutTicks
  /\ rElapsed = 0
  /\ rPhase = "start"
  /\ rTimer = "none"
  /\ rStatus = 0
  /\ rOutcome = StillPending

\* rpc up to its first await: setTimeout(() => controller.abort(), timeoutMs)
\* and the call of fetch.
CallBegins ==
  /\ rPhase = "start"
  /\ rTimer' = "armed"
  /\ rPhase' = "fetch"
  /\ UNCHANGED <<rTimeout, rElapsed, rStatus, rOutcome>>
  /\ CallOnly

\* Time passes while the call waits; an armed timer fires when it is due, so
\* time does not pass it by.
CallTick ==
  /\ rPhase \in {"fetch", "body"}
  /\ rElapsed <= MaxTimeoutTicks
  /\ rTimer = "armed" => rElapsed < rTimeout
  /\ rElapsed' = rElapsed + 1
  /\ UNCHANGED <<rTimeout, rPhase, rTimer, rStatus, rOutcome>>
  /\ CallOnly

\* fetch rejects on its own (connection refused, reset): the inner catch turns
\* it into an McpRpcError, and finally clears the timer.
FetchRejects ==
  /\ rPhase = "fetch"
  /\ rOutcome' = CallOutcome("McpRpcError", FALSE, 0)
  /\ rPhase' = "ended"
  /\ rTimer' = "cleared"
  /\ UNCHANGED <<rTimeout, rElapsed, rStatus>>
  /\ CallOnly

\* fetch resolves: the status line and headers have arrived, the body has not
\* been read. rpc goes on to await res.text().
HeadArrives(status) ==
  /\ rPhase = "fetch"
  /\ rStatus' = status
  /\ rPhase' = "body"
  /\ UNCHANGED <<rTimeout, rElapsed, rTimer, rOutcome>>
  /\ CallOnly

\* res.text() resolves with the whole body: rpc parses it and returns or throws
\* as for any response, and finally clears the timer.
BodyArrives(body) ==
  /\ rPhase = "body"
  /\ LET r == rpc([reached |-> TRUE, status |-> rStatus, body |-> body])
     IN  rOutcome' = IF r.threw THEN CallOutcome("McpRpcError", FALSE, r.code)
                     ELSE CallOutcome("result", FALSE, 0)
  /\ rPhase' = "ended"
  /\ rTimer' = "cleared"
  /\ UNCHANGED <<rTimeout, rElapsed, rStatus>>
  /\ CallOnly

\* The timer fires: controller.abort(). A pending fetch rejects inside the
\* inner try and its catch throws an McpRpcError; a pending res.text() rejects
\* outside it, under the outer try that has a finally and no catch.
TimerFires ==
  /\ rTimer = "armed"
  /\ rElapsed = rTimeout
  /\ rPhase \in {"fetch", "body"}
  /\ rOutcome' = IF rPhase = "fetch" THEN CallOutcome("McpRpcError", TRUE, 0)
                 ELSE CallOutcome("AbortError", TRUE, 0)
  /\ rPhase' = "ended"
  /\ rTimer' = "cleared"
  /\ UNCHANGED <<rTimeout, rElapsed, rStatus>>
  /\ CallOnly

CallNext ==
  \/ CallBegins
  \/ CallTick
  \/ FetchRejects
  \/ \E status \in {200, 404} : HeadArrives(status)
  \/ \E body \in Bodies : BodyArrives(body)
  \/ TimerFires

(***************************************************************************)
(* The exit code: shouldFail over the final result (report.ts, cli.ts).    *)
(***************************************************************************)
ExitOnly ==
  UNCHANGED <<cacheVars, poolVars, matchVars, mcpVars, scanVars, ruleVars, heurVars,
              lineVars, rpcVars, callVars,
              storeVars,
              cmpVars,
              runVars,
              exVars,
              hcVars,
              watchVars>>

MaxFindings == 3

Severities == {"LOW", "MEDIUM", "HIGH", "CRITICAL"}

SEVERITY_RANK(severity) ==
  CASE severity = "LOW" -> 1
    [] severity = "MEDIUM" -> 2
    [] severity = "HIGH" -> 3
    [] severity = "CRITICAL" -> 4

MeetsThresholdMutant(severity, threshold) ==
  SEVERITY_RANK(severity) > SEVERITY_RANK(threshold)

\* SEVERITY_RANK[finding.severity] >= SEVERITY_RANK[threshold]
MeetsThreshold(severity, threshold) ==
  SEVERITY_RANK(severity) >= SEVERITY_RANK(threshold)

\* shouldFail(findings, threshold): false without a threshold, else whether
\* some finding meets it.
shouldFail(findings, threshold) ==
  IF threshold = "undefined" THEN FALSE
  ELSE \E k \in DOMAIN findings : MeetsThreshold(findings[k], threshold)

ExitInit ==
  /\ xFindings \in UNION {[1..n -> Severities] : n \in 0..MaxFindings}
  /\ xFailOn \in Severities \cup {"undefined"}
  /\ xExitCode = 0
  /\ xPc = "scanned"

\* if (shouldFail(result.findings, options.failOn)) process.exitCode = 2
CheckFailCondition ==
  /\ xPc = "scanned"
  /\ xExitCode' = IF shouldFail(xFindings, xFailOn) THEN 2 ELSE xExitCode
  /\ xPc' = "checked"
  /\ UNCHANGED <<xFindings, xFailOn>>
  /\ ExitOnly

ExitNext == CheckFailCondition

(***************************************************************************)
(* Scan storage: DatabaseStorage.save, enforceRetentionPolicy, delete      *)
(* (db-storage.ts).                                                        *)
(***************************************************************************)
StoreOnly ==
  UNCHANGED <<cacheVars, poolVars, matchVars, mcpVars, scanVars, ruleVars, heurVars,
              lineVars, rpcVars, callVars, exitVars,
              cmpVars,
              runVars,
              exVars,
              hcVars,
              watchVars>>

MaxCeiling == 2
MaxSaves == 4

ScanRow(id, timestamp) == [id |-> id, timestamp |-> timestamp]

ScanIds(rows) == {r.id : r \in rows}

\* The sets `SELECT id FROM scans ORDER BY timestamp ASC LIMIT n` can return:
\* n rows such that no row left out is older than a row taken (rows of equal
\* timestamp come in an order SQLite is free to choose).
OldestN(rows, n) ==
  {S \in SUBSET rows :
     /\ Cardinality(S) = n
     /\ \A r \in S, q \in rows \ S : r.timestamp <= q.timestamp}

\* What deleting the scans `gone` does to a child table: its rows go with
\* their scan (ON DELETE CASCADE) only when foreign keys are enforced; the
\* code issues no PRAGMA foreign_keys.
Cascade(childRows, gone) ==
  IF dbForeignKeys THEN childRows \ gone ELSE childRows

\* How many scans enforceRetentionPolicy deletes for a table of `count` rows.
ToDelete(count) == IF count <= maxScans THEN 0 ELSE count - maxScans

StoreInit ==
  /\ dbForeignKeys \in BOOLEAN
  /\ maxScans \in 1..MaxCeiling
  /\ scans = {}
  /\ findingRows = {}
  /\ targetRows = {}
  /\ dbClock = 1
  /\ nextScanId = 0
  /\ lastOp = [op |-> "open", removed |-> {}]

\* save(result, ...): the scan, its findings and its targets are inserted in
\* one transaction, then enforceRetentionPolicy deletes the oldest scans above
\* maxScans.
Save(hasFindings) ==
  /\ nextScanId < MaxSaves
  /\ LET id == nextScanId + 1
         inserted == scans \cup {ScanRow(id, dbClock)}
     IN  \E gone \in OldestN(inserted, ToDelete(Cardinality(inserted))) :
           /\ scans' = inserted \ gone
           /\ findingRows' = Cascade(IF hasFindings THEN findingRows \cup {id}
                                     ELSE findingRows, ScanIds(gone))
           /\ targetRows' = Cascade(targetRows \cup {id}, ScanIds(gone))
           /\ lastOp' = [op |-> "save", removed |-> gone]
           /\ nextScanId' = id
  /\ UNCHANGED <<dbForeignKeys, maxScans, dbClock>>
  /\ StoreOnly

\* delete(id): DELETE FROM scans WHERE id = ?
Delete(id) ==
  /\ id \in ScanIds(scans)
  /\ LET gone == {r \in scans : r.id = id}
     IN  /\ scans' = scans \ gone
         /\ findingRows' = Cascade(findingRows, {id})
         /\ targetRows' = Cascade(targetRows, {id})
         /\ lastOp' = [op |-> "delete", removed |-> gone]
  /\ UNCHANGED <<dbForeignKeys, maxScans, dbClock, nextScanId>>
  /\ StoreOnly

\* Date.now() moves on between two saves (or does not: two saves can fall in
\* the same millisecond).
ClockTick ==
  /\ dbClock <= nextScanId
  /\ dbClock' = dbClock + 1
  /\ UNCHANGED <<dbForeignKeys, maxScans, scans, findingRows, targetRows, nextScanId, lastOp>>
  /\ StoreOnly

StoreNext ==
  \/ \E hasFindings \in BOOLEAN : Save(hasFindings)
  \/ \E id \in 1..MaxSaves : Delete(id)
  \/ ClockTick

(***************************************************************************)
(* Scan comparison: DatabaseStorage.compare and findingKey                 *)
(* (db-storage.ts).                                                        *)
(***************************************************************************)
CompareOnly ==
  UNCHANGED <<cacheVars, poolVars, matchVars, mcpVars, scanVars, ruleVars, heurVars,
              lineVars, rpcVars, callVars, exitVars, storeVars,
              runVars,
              exVars,
              hcVars,
              watchVars>>

MaxStoredFindings == 2
MaxStoredLine == 1

\* get(id) of an id that is not stored.
NoScan == [stored |-> FALSE, findings |-> <<>>]

\* A finding as rowToScan returns it; line 0 stands for no line (`f.line ||
\* undefined`).
StoredFindings ==
  [ruleId : {"r1"}, file : {"a"}, line : 0..MaxStoredLine, message : {"m"},
   severity : {"LOW", "HIGH"}]

RECURSIVE FindingLists(_)
FindingLists(n) ==
  IF n = 0 THEN {<<>>}
  ELSE FindingLists(n - 1)
         \cup {Append(l, f) : l \in {x \in FindingLists(n - 1) : Len(x) = n - 1},
                              f \in StoredFindings}

StoredScans ==
  {NoScan} \cup {[stored |-> TRUE, findings |-> l] : l \in FindingLists(MaxStoredFindings)}

findingKey(finding) == <<finding.ruleId, finding.file, finding.line, finding.message>>

\* new Map(findings.map((f) => [findingKey(f), f])): the keys in the order of
\* their first occurrence, each with the last finding that has it.
RECURSIVE FindingMapFrom(_, _, _)
FindingMapFrom(fs, k, map) ==
  IF k > Len(fs) THEN map
  ELSE LET key == findingKey(fs[k])
           at == {i \in 1..Len(map) : map[i].key = key}
       IN  IF at = {}
           THEN FindingMapFrom(fs, k + 1, Append(map, [key |-> key, finding |-> fs[k]]))
           ELSE FindingMapFrom(fs, k + 1,
                  [i \in 1..Len(map) |->
                     IF i \in at THEN [key |-> key, finding |-> fs[k]] ELSE map[i]])

FindingMap(fs) == FindingMapFrom(fs, 1, <<>>)

MapHas(map, key) == \E i \in 1..Len(map) : map[i].key = key

MapGet(map, key) == map[CHOOSE i \in 1..Len(map) : map[i].key = key].finding

\* The findings of a sequence of map entries, in order.
EntryFindings(entries) == [i \in 1..Len(entries) |-> entries[i].finding]

CompareFindings(baseline, current) ==
  LET baselineFindings == FindingMap(baseline)
      currentFindings == FindingMap(current)
      IsAdded(e) == ~MapHas(baselineFindings, e.key)
      IsChanged(e) == /\ MapHas(baselineFindings, e.key)
                      /\ MapGet(baselineFindings, e.key).severity # e.finding.severity
      IsUnchanged(e) == /\ MapHas(baselineFindings, e.key)
                        /\ MapGet(baselineFindings, e.key).severity = e.finding.severity
      IsRemoved(e) == ~MapHas(currentFindings, e.key)
  IN  [isNull |-> FALSE,
       added |-> EntryFindings(SelectSeq(currentFindings, IsAdded)),
       removed |-> EntryFindings(SelectSeq(baselineFindings, IsRemoved)),
       unchanged |-> EntryFindings(SelectSeq(currentFindings, IsUnchanged)),
       severityChanges |-> EntryFindings(SelectSeq(currentFindings, IsChanged))]

NullComparison ==
  [isNull |-> TRUE, added |-> <<>>, removed |-> <<>>, unchanged |-> <<>>,
   severityChanges |-> <<>>]

CompareInit ==
  /\ cmpBaseline \in StoredScans
  /\ cmpCurrent \in StoredScans
  /\ cmpResult = NullComparison
  /\ cmpPc = "start"

\* compare(baselineId, currentId) when one of the two scans is not stored.
CompareMissing ==
  /\ cmpPc = "start"
  /\ ~cmpBaseline.stored \/ ~cmpCurrent.stored
  /\ cmpResult' = NullComparison
  /\ cmpPc' = "returned"
  /\ UNCHANGED <<cmpBaseline, cmpCurrent>>
  /\ CompareOnly

\* compare(baselineId, currentId) of two stored scans.
Compare ==
  /\ cmpPc = "start"
  /\ cmpBaseline.stored /\ cmpCurrent.stored
  /\ cmpResult' = CompareFindings(cmpBaseline.findings, cmpCurrent.findings)
  /\ cmpPc' = "returned"
  /\ UNCHANGED <<cmpBaseline, cmpCurrent>>
  /\ CompareOnly

CompareNext ==
  \/ CompareMissing
  \/ Compare

(***************************************************************************)
(* runScan's findings list: the target loop, the per-target and the final  *)
(* meta filter (part_004).                                                 *)
(***************************************************************************)
RunOnly ==
  UNCHANGED <<cacheVars, poolVars, matchVars, mcpVars, scanVars, ruleVars, heurVars,
              lineVars, rpcVars, callVars, exitVars, storeVars, cmpVars,
              exVars,
              hcVars,
              watchVars>>

MaxTargets == 2
MaxTargetFiles == 2

RunPaths == {"f1", "f2"}

\* A finding of the scan of `path` for target t. `target` is not a field of
\* Finding: it records where the finding came from and no code reads it.
RunFinding(t, path, rule, line) ==
  [ruleId |-> rule, file |-> path, line |-> line, message |-> "Matched rule",
   target |-> t]

\* What scanning a file of target t returns (or the cache holds): f1 matches one
\* rule twice on one line, f2 matches two rules.
FileFindings(t, path) ==
  IF path = "f1"
  THEN <<RunFinding(t, path, "r1", 1), RunFinding(t, path, "r1", 1)>>
  ELSE <<RunFinding(t, path, "r2", 1), RunFinding(t, path, "r1", 2)>>

RunPlanFiles == UNION {[1..n -> RunPaths] : n \in 1..MaxTargetFiles}

RunPlanLists == UNION {[1..n -> RunPlanFiles] : n \in 1..MaxTargets}

RECURSIVE KeepLastFrom(_, _)
KeepLastFrom(fs, k) ==
  IF k > Len(fs) THEN <<>>
  ELSE IF \E j \in (k + 1)..Len(fs) : Fingerprint(fs[j]) = Fingerprint(fs[k])
       THEN KeepLastFrom(fs, k + 1)
       ELSE <<fs[k]>> \o KeepLastFrom(fs, k + 1)

MetaFilterMutant(fs, enabled) == IF enabled THEN KeepLastFrom(fs, 1) ELSE fs

\* `options.enableMeta ? applyMetaAnalyzer(findings) : findings`
MetaFilter(fs, enabled) == IF enabled THEN ApplyMetaAnalyzer(fs) ELSE fs

RunInit ==
  /\ runPlans \in RunPlanLists
  /\ runMeta \in BOOLEAN
  /\ runTarget = 1
  /\ runPending = {}
  /\ targetSkillFindings = <<>>
  /\ runFindings = <<>>
  /\ rawFindings = <<>>
  /\ filteredFindings = <<>>
  /\ runPc = "target"

\* `for (const plan of scanPlans) { let targetSkillFindings = []; ...`
RunBeginTarget ==
  /\ runPc = "target"
  /\ runTarget <= Len(runPlans)
  /\ targetSkillFindings' = <<>>
  /\ runPending' = DOMAIN runPlans[runTarget]
  /\ runPc' = "files"
  /\ UNCHANGED <<runPlans, runMeta, runTarget, runFindings, rawFindings, filteredFindings>>
  /\ RunOnly

\* The findings of file i of the target reach targetSkillFindings: in the order the
\* pool's workers finish, or, in the parallel branch, the cached files first
\* and the scanned ones after them.
RunFileDone(i) ==
  /\ runPc = "files"
  /\ i \in runPending
  /\ LET fileFindings == FileFindings(runTarget, runPlans[runTarget][i])
     IN  /\ targetSkillFindings' = targetSkillFindings \o fileFindings
         /\ rawFindings' = rawFindings \o fileFindings
  /\ runPending' = runPending \ {i}
  /\ UNCHANGED <<runPlans, runMeta, runTarget, runFindings, filteredFindings, runPc>>
  /\ RunOnly

\* After the files: the per-target meta filter and findings.push(...).
RunCompleteTarget ==
  /\ runPc = "files"
  /\ runPending = {}
  /\ runFindings' = runFindings \o MetaFilter(targetSkillFindings, runMeta)
  /\ runTarget' = runTarget + 1
  /\ runPc' = "target"
  /\ UNCHANGED <<runPlans, runMeta, runPending, targetSkillFindings, rawFindings, filteredFindings>>
  /\ RunOnly

\* After the last target: the final meta filter gives the result's findings.
RunReturn ==
  /\ runPc = "target"
  /\ runTarget > Len(runPlans)
  /\ filteredFindings' = MetaFilter(runFindings, runMeta)
  /\ runPc' = "returned"
  /\ UNCHANGED <<runPlans, runMeta, runTarget, runPending, targetSkillFindings, runFindings,
                 rawFindings>>
  /\ RunOnly

RunNext ==
  \/ RunBeginTarget
  \/ \E i \in 1..MaxTargetFiles : RunFileDone(i)
  \/ RunCompleteTarget
  \/ RunReturn

(***************************************************************************)
(* extractCandidateStrings, one regex.exec at a time (scan-file.ts). Only  *)
(* the number of candidates is kept: what the tokens are plays no part in  *)
(* the loop.                                                               *)
(***************************************************************************)
ExtractOnly ==
  UNCHANGED <<cacheVars, poolVars, matchVars, mcpVars, scanVars, ruleVars, heurVars,
              lineVars, rpcVars, callVars, exitVars, storeVars, cmpVars, runVars,
              hcVars,
              watchVars>>

MaxExtraTokens == 2

\* Files by the number of tokens that match /[A-Za-z0-9+/_=\-]{20,}/g: none,
\* one, and around the limit.
TokenCounts ==
  {0, 1} \cup (MaxCandidates - 1)..(MaxCandidates + MaxExtraTokens)

\* `if (candidates.length > 2000) break;`
ExtractionStops(length) == length > MaxCandidates

ExtractInit ==
  /\ exTokens \in TokenCounts
  /\ exScanned = 0
  /\ exCandidates = 0
  /\ exPc = "exec"

\* regex.exec finds the next token: it is pushed, then the length is tested.
ExecFindsToken ==
  /\ exPc = "exec"
  /\ exScanned < exTokens
  /\ exScanned' = exScanned + 1
  /\ exCandidates' = exCandidates + 1
  /\ exPc' = IF ExtractionStops(exCandidates + 1) THEN "returned" ELSE "exec"
  /\ UNCHANGED exTokens
  /\ ExtractOnly

\* regex.exec returns null: the loop ends.
ExecFindsNothing ==
  /\ exPc = "exec"
  /\ exScanned = exTokens
  /\ exPc' = "returned"
  /\ UNCHANGED <<exTokens, exScanned, exCandidates>>
  /\ ExtractOnly

ExtractNext ==
  \/ ExecFindsToken
  \/ ExecFindsNothing

(***************************************************************************)
(* ScanCache.setCachedFindings and getCachedFindings called on one file,   *)
(* in any order and at any time (part_010).                                *)
(***************************************************************************)
HashOnly ==
  UNCHANGED <<cacheVars, poolVars, matchVars, mcpVars, scanVars, ruleVars, heurVars,
              lineVars, rpcVars, callVars, exitVars, storeVars, cmpVars, runVars, exVars,
              watchVars>>

MaxMillis == 2

HashedFile == "p1"

NoCall == [called |-> FALSE, hit |-> FALSE, readable |-> FALSE, at |-> 0]

HashInit ==
  /\ hcNow = 0
  /\ hcContent \in {"c1", Unreadable}
  /\ hcEntry = NoEntry
  /\ hcLast = NoCall

\* setCachedFindings(filePath, findings): the file is hashed and the entry set.
\* For a file that cannot be read the findings are the [] scanFile's failed
\* probe returned.
SetCachedFindings ==
  /\ hcEntry' = NewEntry(HashFile(HashedFile, hcContent, hcNow),
                         IF hcContent = Unreadable THEN <<>>
                         ELSE ScanFile(HashedFile, hcContent, "R1", FALSE),
                         hcNow, "1.0", "R1")
  /\ hcLast' = NoCall
  /\ UNCHANGED <<hcNow, hcContent>>
  /\ HashOnly

\* getCachedFindings(filePath): a hit returns the entry's findings, a miss on
\* an entry that exists deletes it.
GetCachedFindings ==
  /\ LET hit == LookupHits(hcEntry, "1.0", hcNow, HashFile(HashedFile, hcContent, hcNow))
     IN  /\ hcEntry' = IF hit THEN hcEntry ELSE NoEntry
         /\ hcLast' = [called |-> TRUE, hit |-> hit,
                       readable |-> hcContent # Unreadable, at |-> hcNow]
  /\ UNCHANGED <<hcNow, hcContent>>
  /\ HashOnly

\* A millisecond passes.
MilliTick ==
  /\ hcNow < MaxMillis
  /\ hcNow' = hcNow + 1
  /\ UNCHANGED <<hcContent, hcEntry, hcLast>>
  /\ HashOnly

\* The file is edited, or becomes unreadable or readable.
FileChanges(c) ==
  /\ hcContent # c
  /\ hcContent' = c
  /\ UNCHANGED <<hcNow, hcEntry, hcLast>>
  /\ HashOnly

HashNext ==
  \/ SetCachedFindings
  \/ GetCachedFindings
  \/ MilliTick
  \/ \E c \in {"c1", "c2", Unreadable} : FileChanges(c)

(***************************************************************************)
(* Watch mode: watchAndScan after the initial scan (part_000). Time is     *)
(* counted in ticks of 100 ms.                                             *)
(***************************************************************************)
WatchOnly ==
  UNCHANGED <<cacheVars, poolVars, matchVars, mcpVars, scanVars, ruleVars, heurVars,
              lineVars, rpcVars, callVars, exitVars, storeVars, cmpVars, runVars, exVars,
              hcVars>>

MaxEvents == 4

\* setTimeout(..., 300)
DebounceTicks == 3

WatchInit ==
  /\ wArmed = FALSE
  /\ wRemaining = 0
  /\ wEvents = 0
  /\ wBursts = 0
  /\ wStarted = 0
  /\ wRunning = {}
  /\ wBaseline = 0
  /\ wOutOfOrder = FALSE

\* A watcher reports a change: trigger() clears the timer if one is pending
\* (clearing one that has fired does nothing) and sets a new one.
Trigger ==
  /\ wEvents < MaxEvents
  /\ wEvents' = wEvents + 1
  /\ wBursts' = IF wArmed THEN wBursts ELSE wBursts + 1
  /\ wArmed' = TRUE
  /\ wRemaining' = DebounceTicks
  /\ UNCHANGED <<wStarted, wRunning, wBaseline, wOutOfOrder>>
  /\ WatchOnly

\* 100 ms pass without the timer being due.
WatchTick ==
  /\ wArmed
  /\ wRemaining > 0
  /\ wRemaining' = wRemaining - 1
  /\ UNCHANGED <<wArmed, wEvents, wBursts, wStarted, wRunning, wBaseline, wOutOfOrder>>
  /\ WatchOnly

\* The timer fires: its callback calls runScan, whatever else is running.
DebounceFires ==
  /\ wArmed
  /\ wRemaining = 0
  /\ wArmed' = FALSE
  /\ wStarted' = wStarted + 1
  /\ wRunning' = wRunning \cup {wStarted + 1}
  /\ UNCHANGED <<wRemaining, wEvents, wBursts, wBaseline, wOutOfOrder>>
  /\ WatchOnly

\* A re-scan returns its result: notifyNewFindings compares it with
\* previousKeys and replaces previousKeys by its findings.
NotifyNewFindings(scan) ==
  /\ scan \in wRunning
  /\ wRunning' = wRunning \ {scan}
  /\ wBaseline' = scan
  /\ wOutOfOrder' = (wOutOfOrder \/ scan < wBaseline)
  /\ UNCHANGED <<wArmed, wRemaining, wEvents, wBursts, wStarted>>
  /\ WatchOnly

WatchNext ==
  \/ Trigger
  \/ WatchTick
  \/ DebounceFires
  \/ \E scan \in 1..MaxEvents : NotifyNewFindings(scan)

(***************************************************************************)
(* Values of a subsystem's variables while another subsystem is checked.   *)
(***************************************************************************)
CacheIdle ==
  /\ now = 0 /\ content = <<>> /\ disk = <<>> /\ cache = <<>> /\ dirty = FALSE
  /\ ruleVersion = "" /\ corpus = "" /\ useBehavioral = FALSE /\ phase = "down"
  /\ scanned = {} /\ inflight = "" /\ persisted = <<>> /\ lastLookup = NoLookup
  /\ prevReport = <<>> /\ curReport = <<>> /\ loaded = FALSE /\ lastExit = <<>>

PoolIdle ==
  /\ index = 0 /\ wpc = <<>> /\ wfile = <<>> /\ wcached = <<>> /\ wfindings = <<>>
  /\ pcache = <<>> /\ taken = <<>> /\ stored = <<>> /\ skillFindings = <<>>
  /\ onFileCount = <<>> /\ outcome = <<>>

MatchIdle ==
  /\ mfiles = <<>> /\ mcontent = <<>> /\ mpath = "" /\ mfileType = "" /\ mrule = 0 /\ mpat = 0 /\ lastIndex = 0
  /\ ruleHits = 0 /\ mfindings = <<>> /\ exLastIndex = <<>> /\ mpc = "idle"
  /\ mlast = <<>> /\ mreturned = <<>>

McpIdle ==
  /\ servers = <<>> /\ plans = <<>> /\ enableMeta = FALSE /\ planIdx = 0 /\ itemIdx = 0
  /\ targetFindings = <<>> /\ allFindings = <<>> /\ mcpPc = "idle" /\ result = <<>>
  /\ resultTargets = <<>>

RulesIdle ==
  /\ rawRules = <<>> /\ compiledRules = <<>> /\ rulesPc = "idle"

HeurIdle ==
  /\ hContent = <<>> /\ hBehavioral = FALSE /\ hCandidates = <<>> /\ hPos = 0
  /\ hFindings = <<>> /\ hPc = "idle" /\ hResult = <<>>

LinesIdle ==
  /\ lnContent = <<>> /\ lnIndex = <<>> /\ lnLast = <<>> /\ lnPc = "idle"

RpcIdle ==
  /\ cScan = {} /\ cPc = "idle" /\ cCollected = <<>> /\ cNotFound = {} /\ cFailedAt = ""
  /\ cLast = <<>>

CallIdle ==
  /\ rTimeout = 0 /\ rElapsed = 0 /\ rPhase = "idle" /\ rTimer = "none" /\ rStatus = 0
  /\ rOutcome = <<>>

ExitIdle ==
  /\ xFindings = <<>> /\ xFailOn = "" /\ xExitCode = 0 /\ xPc = "idle"

StoreIdle ==
  /\ dbForeignKeys = FALSE /\ maxScans = 0 /\ scans = {} /\ findingRows = {} /\ targetRows = {}
  /\ dbClock = 0 /\ nextScanId = 0 /\ lastOp = <<>>

CompareIdle ==
  /\ cmpBaseline = <<>> /\ cmpCurrent = <<>> /\ cmpResult = <<>> /\ cmpPc = "idle"

RunIdle ==
  /\ runPlans = <<>> /\ runMeta = FALSE /\ runTarget = 0 /\ runPending = {} /\ targetSkillFindings = <<>>
  /\ runFindings = <<>> /\ rawFindings = <<>> /\ filteredFindings = <<>> /\ runPc = "idle"

ExtractIdle ==
  /\ exTokens = 0 /\ exScanned = 0 /\ exCandidates = 0 /\ exPc = "idle"

HashIdle ==
  /\ hcNow = 0 /\ hcContent = "" /\ hcEntry = NoEntry /\ hcLast = <<>>

WatchIdle ==
  /\ wArmed = FALSE /\ wRemaining = 0 /\ wEvents = 0 /\ wBursts = 0 /\ wStarted = 0 /\ wRunning = {}
  /\ wBaseline = 0 /\ wOutOfOrder = FALSE

ScanIdle ==
  /\ scanPlans = <<>> /\ tgt = 0 /\ pendingItems = {} /\ events = <<>>
  /\ scanPc = "idle" /\ scannedFiles = 0

(***************************************************************************)
(* Spec: the scan cache across process invocations.                        *)
(***************************************************************************)
Init == CacheInit /\ PoolIdle /\ MatchIdle /\ McpIdle /\ ScanIdle /\ RulesIdle /\ HeurIdle /\ LinesIdle /\ RpcIdle /\ CallIdle /\ ExitIdle /\ StoreIdle /\ CompareIdle /\ RunIdle /\ ExtractIdle /\ HashIdle /\ WatchIdle

Next == CacheNext

Spec == Init /\ [][Next]_vars

(***************************************************************************)
(* SpecPool: one plan scanned by the worker pool.                          *)
(***************************************************************************)
InitPool == CacheIdle /\ PoolInit /\ MatchIdle /\ McpIdle /\ ScanIdle /\ RulesIdle /\ HeurIdle /\ LinesIdle /\ RpcIdle /\ CallIdle /\ ExitIdle /\ StoreIdle /\ CompareIdle /\ RunIdle /\ ExtractIdle /\ HashIdle /\ WatchIdle

SpecPool == InitPool /\ [][PoolNext]_vars

(***************************************************************************)
(* SpecMatch: scanContent over the files of one process.                   *)
(***************************************************************************)
InitMatch == CacheIdle /\ PoolIdle /\ MatchInit /\ McpIdle /\ ScanIdle /\ RulesIdle /\ HeurIdle /\ LinesIdle /\ RpcIdle /\ CallIdle /\ ExitIdle /\ StoreIdle /\ CompareIdle /\ RunIdle /\ ExtractIdle /\ HashIdle /\ WatchIdle

SpecMatch == InitMatch /\ [][MatchNext]_vars

(***************************************************************************)
(* SpecMcp: the scan loop of runMcpRemoteMultiScan.                        *)
(***************************************************************************)
InitMcp == CacheIdle /\ PoolIdle /\ MatchIdle /\ McpInit /\ ScanIdle /\ RulesIdle /\ HeurIdle /\ LinesIdle /\ RpcIdle /\ CallIdle /\ ExitIdle /\ StoreIdle /\ CompareIdle /\ RunIdle /\ ExtractIdle /\ HashIdle /\ WatchIdle

SpecMcp == InitMcp /\ [][McpNext]_vars

(***************************************************************************)
(* SpecScan: runScan's target loop and the events it sends to the sink.    *)
(***************************************************************************)
InitScan == CacheIdle /\ PoolIdle /\ MatchIdle /\ McpIdle /\ ScanInit /\ RulesIdle /\ HeurIdle /\ LinesIdle /\ RpcIdle /\ CallIdle /\ ExitIdle /\ StoreIdle /\ CompareIdle /\ RunIdle /\ ExtractIdle /\ HashIdle /\ WatchIdle

SpecScan == InitScan /\ [][ScanNext]_vars

(***************************************************************************)
(* SpecRules: loadRulesFromText applied to a parsed rules file.            *)
(***************************************************************************)
InitRules == CacheIdle /\ PoolIdle /\ MatchIdle /\ McpIdle /\ ScanIdle /\ RulesInit /\ HeurIdle /\ LinesIdle /\ RpcIdle /\ CallIdle /\ ExitIdle /\ StoreIdle /\ CompareIdle /\ RunIdle /\ ExtractIdle /\ HashIdle /\ WatchIdle

SpecRules == InitRules /\ [][RulesNext]_vars

(***************************************************************************)
(* SpecHeur: the high-entropy heuristic over one file's text.              *)
(***************************************************************************)
InitHeur ==
  /\ CacheIdle /\ PoolIdle /\ MatchIdle /\ McpIdle /\ ScanIdle /\ RulesIdle /\ HeurInit
  /\ LinesIdle /\ RpcIdle /\ CallIdle /\ ExitIdle /\ StoreIdle /\ CompareIdle /\ RunIdle /\ ExtractIdle /\ HashIdle /\ WatchIdle

SpecHeur == InitHeur /\ [][HeurNext]_vars

(***************************************************************************)
(* SpecLines: the line number of a finding, for every content and match.   *)
(***************************************************************************)
InitLines ==
  /\ CacheIdle /\ PoolIdle /\ MatchIdle /\ McpIdle /\ ScanIdle /\ RulesIdle /\ HeurIdle
  /\ LinesInit /\ RpcIdle /\ CallIdle /\ ExitIdle /\ StoreIdle /\ CompareIdle /\ RunIdle /\ ExtractIdle /\ HashIdle /\ WatchIdle

SpecLines == InitLines /\ [][LinesNext]_vars

(***************************************************************************)
(* SpecRpc: one server's collection, call by call.                         *)
(***************************************************************************)
InitRpc ==
  /\ CacheIdle /\ PoolIdle /\ MatchIdle /\ McpIdle /\ ScanIdle /\ RulesIdle /\ HeurIdle
  /\ LinesIdle /\ RpcInit /\ CallIdle /\ ExitIdle /\ StoreIdle /\ CompareIdle /\ RunIdle /\ ExtractIdle /\ HashIdle /\ WatchIdle

SpecRpc == InitRpc /\ [][RpcNext]_vars

(***************************************************************************)
(* SpecCall: one rpc call and its timeout.                                 *)
(***************************************************************************)
InitCall ==
  /\ CacheIdle /\ PoolIdle /\ MatchIdle /\ McpIdle /\ ScanIdle /\ RulesIdle /\ HeurIdle
  /\ LinesIdle /\ RpcIdle /\ CallInit /\ ExitIdle /\ StoreIdle /\ CompareIdle /\ RunIdle /\ ExtractIdle /\ HashIdle /\ WatchIdle

SpecCall == InitCall /\ [][CallNext]_vars

(***************************************************************************)
(* SpecExit: the exit code of a completed scan.                            *)
(***************************************************************************)
InitExit ==
  /\ CacheIdle /\ PoolIdle /\ MatchIdle /\ McpIdle /\ ScanIdle /\ RulesIdle /\ HeurIdle
  /\ LinesIdle /\ RpcIdle /\ CallIdle /\ ExitInit /\ StoreIdle /\ CompareIdle /\ RunIdle /\ ExtractIdle /\ HashIdle /\ WatchIdle

SpecExit == InitExit /\ [][ExitNext]_vars

(***************************************************************************)
(* SpecStore: saves and deletes against the scan database.                 *)
(***************************************************************************)
InitStore ==
  /\ CacheIdle /\ PoolIdle /\ MatchIdle /\ McpIdle /\ ScanIdle /\ RulesIdle /\ HeurIdle
  /\ LinesIdle /\ RpcIdle /\ CallIdle /\ ExitIdle /\ StoreInit /\ CompareIdle /\ RunIdle /\ ExtractIdle /\ HashIdle /\ WatchIdle

SpecStore == InitStore /\ [][StoreNext]_vars

(***************************************************************************)
(* SpecCompare: one comparison of two stored scans.                        *)
(***************************************************************************)
InitCompare ==
  /\ CacheIdle /\ PoolIdle /\ MatchIdle /\ McpIdle /\ ScanIdle /\ RulesIdle /\ HeurIdle
  /\ LinesIdle /\ RpcIdle /\ CallIdle /\ ExitIdle /\ StoreIdle /\ CompareInit /\ RunIdle /\ ExtractIdle /\ HashIdle /\ WatchIdle

SpecCompare == InitCompare /\ [][CompareNext]_vars

(***************************************************************************)
(* SpecRun: runScan's target loop and the findings list it returns.        *)
(***************************************************************************)
InitRun ==
  /\ CacheIdle /\ PoolIdle /\ MatchIdle /\ McpIdle /\ ScanIdle /\ RulesIdle /\ HeurIdle
  /\ LinesIdle /\ RpcIdle /\ CallIdle /\ ExitIdle /\ StoreIdle /\ CompareIdle /\ RunInit /\ ExtractIdle /\ HashIdle /\ WatchIdle

SpecRun == InitRun /\ [][RunNext]_vars

(***************************************************************************)
(* SpecExtract: one call of extractCandidateStrings.                       *)
(***************************************************************************)
InitExtract ==
  /\ CacheIdle /\ PoolIdle /\ MatchIdle /\ McpIdle /\ ScanIdle /\ RulesIdle /\ HeurIdle
  /\ LinesIdle /\ RpcIdle /\ CallIdle /\ ExitIdle /\ StoreIdle /\ CompareIdle /\ RunIdle
  /\ ExtractInit /\ HashIdle /\ WatchIdle

SpecExtract == InitExtract /\ [][ExtractNext]_vars

(***************************************************************************)
(* SpecHash: stores and lookups of one file against one ScanCache.         *)
(***************************************************************************)
InitHash ==
  /\ CacheIdle /\ PoolIdle /\ MatchIdle /\ McpIdle /\ ScanIdle /\ RulesIdle /\ HeurIdle
  /\ LinesIdle /\ RpcIdle /\ CallIdle /\ ExitIdle /\ StoreIdle /\ CompareIdle /\ RunIdle
  /\ ExtractIdle /\ HashInit /\ WatchIdle

SpecHash == InitHash /\ [][HashNext]_vars

(***************************************************************************)
(* SpecWatch: filesystem events, the debounce timer and the re-scans.      *)
(***************************************************************************)
InitWatch ==
  /\ CacheIdle /\ PoolIdle /\ MatchIdle /\ McpIdle /\ ScanIdle /\ RulesIdle /\ HeurIdle
  /\ LinesIdle /\ RpcIdle /\ CallIdle /\ ExitIdle /\ StoreIdle /\ CompareIdle /\ RunIdle
  /\ ExtractIdle /\ HashIdle /\ WatchInit

SpecWatch == InitWatch /\ [][WatchNext]_vars

(***************************************************************************)
(* Claims about the scan cache (checked under Spec).                       *)
(***************************************************************************)

\* C1: a lookup returns the stored findings, unchanged, if and only if an entry for
\* the path exists (stored in this invocation, or persisted by an earlier one), its
\* rule_version equals the current rule version, its age does not exceed the TTL and
\* the current hash of the content equals the stored hash; in every other case the
\* lookup is a miss and the entry is evicted.
C1_LookupIffEntryValid ==
  lastLookup.path # "" =>
    LET e     == lastLookup.entry
        valid == /\ e.present
                 /\ e.ruleVersion = lastLookup.ruleVersion
                 /\ lastLookup.at - e.timestamp <= CacheMaxAge
                 /\ e.hash = lastLookup.hashNow
    IN /\ lastLookup.hit <=> valid
       /\ lastLookup.hit => lastLookup.findings = e.findings
       /\ ~lastLookup.hit => lastLookup.evicted

\* C2: no lookup returns findings that were stored under another rule corpus than
\* the one the current scan loaded.
C2_NoStaleFindingsAfterRuleChange ==
  lastLookup.hit => lastLookup.foundCorpus = lastLookup.corpus

\* C3: for a file whose content is unchanged between two consecutive scans run with
\* the same rule_version (and the same options), the second scan reports for it the
\* findings the first scan reported.
C3_CacheSound ==
  \A p \in Paths :
    (/\ prevReport[p].done /\ curReport[p].done
     /\ prevReport[p].content = curReport[p].content
     /\ prevReport[p].ruleVersion = curReport[p].ruleVersion
     /\ prevReport[p].behavioural = curReport[p].behavioural)
    => curReport[p].findings = prevReport[p].findings

\* C12: after a cancellation signal arrives during a scan, every item in flight runs
\* to completion (none is left unfinished when the process ends) and the cache, if
\* dirty, is flushed before the scan ends.
C12_CancelDrainsAndFlushes ==
  lastExit.how = "signal" =>
    /\ lastExit.inflight = ""
    /\ lastExit.dirty => lastExit.wrote

C4_EachItemTakenByOneWorker ==
  /\ \A i \in Files : taken[i] <= 1 /\ onFileCount[i] <= 1
  /\ \A w1, w2 \in Workers : (wfile[w1] # 0 /\ wfile[w1] = wfile[w2]) => w1 = w2
  /\ \A w \in Workers : wfile[w] # 0 => wfile[w] \in Files
  /\ PoolDone => \A i \in Files : taken[i] = 1 /\ onFileCount[i] = 1

\* Every worker of the pool holds an item at the same time.
C4_Witness_AllWorkersBusy ==
  /\ Cardinality(Workers) = Concurrency(HardwareConcurrency)
  /\ \A w \in Workers : wfile[w] # 0

\* C5: under every interleaving of the workers' lookups and stores, no store or
\* eviction is lost or overwritten by another worker's operation: an entry once
\* stored stays as stored, an evicted entry stays absent until its file's store, and
\* when all workers have finished every file scanned on a miss has exactly one
\* entry, holding that file's hash and findings, every hit file keeps its entry and
\* every file whose scan threw has none.
C5_CacheMutationExclusiveInEffect ==
  /\ \A i \in Files :
       /\ stored[i] <= 1
       /\ stored[i] = 1 => pcache[i] = PoolEntry(PoolHash(i), PoolFindings(i), PoolNow)
       /\ (outcome[i] = "hit") => pcache[i] = StartEntry(i)
       /\ (outcome[i] = "threw") => ~pcache[i].present
  /\ \A w \in Workers : wpc[w] \in {"miss", "storing"} => ~pcache[wfile[w]].present
  /\ PoolDone => \A i \in Files : outcome[i] = "scanned" => stored[i] = 1

\* One worker is suspended in a store's hashFile while another is suspended in a
\* lookup's hashFile and a third file's entry has already been evicted.
C5_Witness_OverlappingCacheOperations ==
  \E w1, w2 \in Workers :
    /\ wpc[w1] = "storing"
    /\ wpc[w2] = "hashing"
    /\ \E i \in Files : StartEntry(i).present /\ ~pcache[i].present /\ i # wfile[w1]

(***************************************************************************)
(* Claims about the signature matcher (checked under SpecMatch).           *)
(***************************************************************************)

\* C7: for every file and every rule applicable to it, the number of signature
\* findings emitted for that rule in that file is at most 20, counted over all of
\* the rule's patterns together.
C7_AtMostTwentyFindingsPerRulePerFile ==
  /\ \A r \in DOMAIN Rules : RuleFindingCount(Rules[r].id) <= 20
  /\ ruleHits <= 20

\* The cap is reached by a match of the rule's second pattern, with further matches
\* of the rule left in the file.
C7_Witness_CapReachedInSecondPattern ==
  /\ mlast.kind = "emit"
  /\ mlast.pat = 2
  /\ mlast.more
  /\ RuleFindingCount(Rules[mlast.rule].id) = 20

\* C8: no finding is emitted for a match if at least one of the rule's exclude
\* patterns matches the match's text.
C8_NoFindingForExcludedMatch ==
  mlast.kind = "emit" => ~AnyExcludeMatches(Rules[mlast.rule], mlast.text)

\* C9: for a pattern that can match the empty string the match loop terminates
\* (every pass of the loop moves the scan position strictly forward, and the position
\* never exceeds the content's length plus one), no finding is emitted for an empty
\* match, and the scan position advances by one past each zero-width match.
C9_ZeroWidthMatchesAdvanceAndTerminate ==
  /\ [](mlast.kind = "empty" /\ mpc = "exec" => lastIndex = mlast.index + 1)
  /\ [](mlast.kind = "emit" => Len(mlast.text) > 0)
  /\ [](mpc = "exec" => lastIndex <= Len(mcontent) + 1)
  /\ [][mlast'.kind = "empty" => mfindings' = mfindings]_vars
  /\ [][mpc = "exec" /\ mpc' = "exec" => lastIndex' > lastIndex]_vars

\* A zero-width match in the middle of a file that has already produced a finding.
C9_Witness_ZeroWidthMatch ==
  /\ mlast.kind = "empty"
  /\ mpc = "exec"
  /\ mfindings # <<>>
  /\ lastIndex <= Len(mcontent)

\* C11: any two scans run on the same inputs (the same file with the same content)
\* with the same rule corpus and options yield the same multiset of findings, also
\* when the second runs in the same process after the first and reuses the compiled
\* rules.
C11_SameInputsSameFindings ==
  \A i, j \in DOMAIN mreturned :
    (mreturned[i].path = mreturned[j].path /\ mreturned[i].content = mreturned[j].content)
    => SameMultiset(mreturned[i].findings, mreturned[j].findings)

(***************************************************************************)
(* Claims about runScan's progress events (checked under SpecScan).        *)
(***************************************************************************)
\* The positions of the events of one type (and, for t > 0, one target) in the log.
EventsAt(type, t) ==
  {k \in DOMAIN events : events[k].type = type /\ (t = 0 \/ events[k].target = t)}

C14_OneFileEventPerItem ==
  /\ \A t \in DOMAIN scanPlans : \A i \in DOMAIN scanPlans[t].files :
       Cardinality({k \in EventsAt("file", t) : events[k].item = i}) <= 1
  /\ scanPc = "returned" =>
       /\ \A t \in DOMAIN scanPlans : \A i \in DOMAIN scanPlans[t].files :
            Cardinality({k \in EventsAt("file", t) : events[k].item = i}) = 1
       /\ Cardinality(EventsAt("file", 0)) = scannedFiles

\* A returned scan whose plans hold a hit, a miss and an unreadable item, over both
\* branches.
C14_Witness_HitMissUnreadable ==
  /\ scanPc = "returned"
  /\ Len(scanPlans) = 2
  /\ scanPlans[1].parallel /\ ~scanPlans[2].parallel
  /\ \A kind \in {"hit", "unreadable"} :
       \A t \in DOMAIN scanPlans : \E i \in DOMAIN scanPlans[t].files : scanPlans[t].files[i] = kind

(***************************************************************************)
(* Claims about the MCP multi-server scan (checked under SpecMcp).         *)
(***************************************************************************)

\* C6: no error raised while processing a single item aborts the scan: the scan of
\* the servers' items never ends by the item's error leaving the scan function.
C6_NoItemErrorAbortsScan == mcpPc # "aborted"

\* C10: whenever the meta-analyzer is enabled, the findings list of the returned
\* ScanResult contains no two findings with the same fingerprint.
C10_NoDuplicateFingerprintsInResult ==
  (mcpPc = "returned" /\ enableMeta) => NoDuplicateFingerprints(result)

FailedServers == {k \in DOMAIN servers : CollectFails(servers[k])}

RECURSIVE FindingsOfPlans(_, _)
FindingsOfPlans(ps, k) ==
  IF k > Len(ps) THEN <<>>
  ELSE LET RECURSIVE OfItems(_)
           OfItems(i) == IF i > Len(ps[k].files) THEN <<>>
                         ELSE ScanContentItem(ps[k].files[i]) \o OfItems(i + 1)
       IN  (IF enableMeta THEN ApplyMetaAnalyzer(OfItems(1)) ELSE OfItems(1))
             \o FindingsOfPlans(ps, k + 1)

\* C20: in multi-server mode a server whose collection fails is recorded with
\* zero items and an error in its target's meta, and its failure ends neither
\* the collection nor the scan: every other server is still collected with its
\* items, the target loop passes over the failed target, and the ScanResult
\* that is returned names every server and holds the other servers' findings.
C20_FailedServerRecordedAndScanGoesOn ==
  /\ [](\A k \in DOMAIN plans :
          IF CollectFails(servers[k])
            THEN plans[k].files = <<>> /\ plans[k].error /\ plans[k].name = servers[k]
            ELSE plans[k].files = VirtualizeRemote(servers[k]) /\ ~plans[k].error)
  /\ [](mcpPc # "collect" => Len(plans) = Len(servers))
  /\ [][(mcpPc = "collect" /\ CollectFails(servers[Len(plans) + 1])) =>
          mcpPc' \in {"collect", "target"} /\ Len(plans') = Len(plans) + 1]_vars
  /\ [][(mcpPc = "items" /\ plans[planIdx].error) =>
          mcpPc' = "target" /\ planIdx' = planIdx + 1]_vars
  /\ [](mcpPc = "returned" =>
          /\ Len(resultTargets) = Len(servers)
          /\ \A k \in DOMAIN servers : resultTargets[k].error = CollectFails(servers[k])
          /\ result = FindingsOfPlans([k \in DOMAIN servers |->
                         [files |-> IF CollectFails(servers[k]) THEN <<>>
                                    ELSE VirtualizeRemote(servers[k])]], 1))

C20_Witness_FailedServerThenScannedServer ==
  /\ mcpPc = "returned"
  /\ Len(servers) >= 2
  /\ CollectFails(servers[1])
  /\ resultTargets[1].error
  /\ \E k \in DOMAIN result : result[k].file[2] = HostOf(servers[Len(servers)])

(***************************************************************************)
(* Claims about rule compilation (checked under SpecRules).                *)
(***************************************************************************)

\* C16: after compilation every rule of the corpus has at least one compiled
\* pattern; a rule whose patterns all fail to compile, or whose pattern list is
\* empty, is not in the corpus.
C16_EveryCompiledRuleHasAPattern ==
  rulesPc = "loaded" =>
    \A k \in 1..Len(compiledRules) : compiledRules[k]._compiled # <<>>

(***************************************************************************)
(* Claims about the behavioural heuristics (checked under SpecHeur).       *)
(***************************************************************************)
EntropyFindingCount(findings) ==
  Cardinality({k \in 1..Len(findings) :
                 findings[k].ruleId = "HEURISTIC_HIGH_ENTROPY_SECRET"})

HighEntropyTokens(text) ==
  Cardinality({k \in 1..Len(text) :
                 text[k].len >= MinCandidateLength /\ text[k].entropy >= EntropyThreshold})

\* C17: a file scanned with behavioural heuristics enabled gets at most 10
\* HEURISTIC_HIGH_ENTROPY_SECRET findings, however many high-entropy tokens
\* it contains (and, below the cap, one per such token).
C17_AtMostTenHighEntropyFindings ==
  /\ EntropyFindingCount(hFindings) <= 10
  /\ (hPc = "done" /\ hBehavioral) =>
        /\ EntropyFindingCount(hResult) <= 10
        /\ HighEntropyTokens(hContent) <= 10 =>
              EntropyFindingCount(hResult) = HighEntropyTokens(hContent)

C17_Witness_MoreThanTenHighEntropyTokens ==
  /\ hPc = "done" /\ hBehavioral
  /\ HighEntropyTokens(hContent) > 10
  /\ EntropyFindingCount(hResult) = 10

(***************************************************************************)
(* Claims about line numbers (checked under SpecLines).                    *)
(***************************************************************************)
NewlinesBefore(s, at) == Cardinality({k \in 1..at : s[k] = "n"})

\* The lines of a text: its newline-terminated lines, and a last line without
\* newline if the text does not end in one.
NumberOfLines(s) ==
  NewlinesBefore(s, Len(s)) + (IF s # <<>> /\ s[Len(s)] # "n" THEN 1 ELSE 0)

\* C18: every finding that carries a line number has 1 <= line <= number of
\* lines of its file, for every content (empty, with or without a trailing
\* newline) and every match offset; the line is that of the match's first
\* character.
C18_LineWithinFile ==
  lnLast.emitted =>
    /\ 1 <= lnLast.line
    /\ lnLast.line <= NumberOfLines(lnContent)
    /\ lnLast.line = 1 + NewlinesBefore(lnContent, lnLast.index)

C18_Witness_MatchOnLastLineBeforeTrailingNewline ==
  /\ lnLast.emitted
  /\ lnContent[Len(lnContent)] = "n"
  /\ lnLast.line = NumberOfLines(lnContent)
  /\ lnLast.line >= 2

(***************************************************************************)
(* Claims about MCP collection (checked under SpecRpc).                    *)
(***************************************************************************)

\* C19: a list call (tools/list, prompts/list, resources/list) answered with a
\* JSON-RPC error of code -32601 leaves its category an empty list, the
\* collector goes on to the other categories, and the collection does not fail
\* because of it.
C19_MethodNotFoundIsEmptyList ==
  /\ [](\A c \in cNotFound : cCollected[c] = "empty" /\ cFailedAt # c)
  /\ [][(cPc \in Categories /\ cPc \in cNotFound') =>
          /\ cPc' = NextCall(cScan, CallIndex(cPc))
          /\ cFailedAt' = cFailedAt]_vars

C19_Witness_ToolsNotFoundPromptsListed ==
  /\ cPc = "done"
  /\ "tools/list" \in cNotFound
  /\ cCollected["prompts/list"] = "listed"
  /\ "resources/list" \in cNotFound

(***************************************************************************)
(* Claims about the request timeout (checked under SpecCall).              *)
(***************************************************************************)

\* C21: every rpc call is subject to its timeout: no call is pending beyond
\* it, a call ended by the timeout ends with the typed error McpRpcError, and
\* the timer is disarmed when the call has ended, however it ended.
C21_TimeoutEndsCallWithTypedError ==
  /\ rPhase \in {"fetch", "body"} => rElapsed <= rTimeout
  /\ rPhase = "ended" => rTimer = "cleared"
  /\ (rPhase = "ended" /\ rOutcome.byTimeout) => rOutcome.kind = "McpRpcError"

(***************************************************************************)
(* Claims about the exit code (checked under SpecExit).                    *)
(***************************************************************************)
SeverityOrder == <<"LOW", "MEDIUM", "HIGH", "CRITICAL">>

PlaceInOrder(severity) == CHOOSE k \in DOMAIN SeverityOrder : SeverityOrder[k] = severity

\* C22: after a completed scan the exit code is 2 if and only if a fail
\* threshold is configured and some finding of the final result has a
\* severity at or above it in the order LOW < MEDIUM < HIGH < CRITICAL;
\* otherwise it is 0.
C22_ExitCodeTwoIffThresholdMet ==
  xPc = "checked" =>
    LET met == /\ xFailOn # "undefined"
               /\ \E k \in DOMAIN xFindings :
                    PlaceInOrder(xFindings[k]) >= PlaceInOrder(xFailOn)
    IN  xExitCode = IF met THEN 2 ELSE 0

C22_Witness_FindingExactlyAtThreshold ==
  /\ xPc = "checked"
  /\ xFailOn = "HIGH"
  /\ xFindings = <<"LOW", "HIGH">>
  /\ xExitCode = 2

(***************************************************************************)
(* Claims about scan storage (checked under SpecStore).                    *)
(***************************************************************************)

\* C23: after every save, whatever saves and deletes came before, the number
\* of stored scans is at most the configured ceiling, the scans the save
\* dropped are the oldest ones, and no findings or targets of a dropped scan
\* remain stored.
C23_RetentionKeepsNewestAndDropsChildren ==
  lastOp.op = "save" =>
    /\ Cardinality(scans) <= maxScans
    /\ \A r \in lastOp.removed, q \in scans : r.timestamp <= q.timestamp
    /\ \A r \in lastOp.removed : r.id \notin findingRows /\ r.id \notin targetRows

(***************************************************************************)
(* Claims about scan comparison (checked under SpecCompare).               *)
(***************************************************************************)
Elems(seq) == {seq[i] : i \in 1..Len(seq)}

ClassesOf(finding) ==
  {c \in {"added", "unchanged", "severityChanges", "removed"} :
     finding \in Elems(cmpResult[c])}

\* C24: a comparison of two stored scans partitions their findings by
\* fingerprint: every finding of the current scan is in exactly one of added,
\* unchanged and severity_changed, every finding of the baseline whose
\* fingerprint no current finding has is in removed, and no finding is in two
\* of the four classes.
C24_ComparePartitionsFindings ==
  (cmpPc = "returned" /\ ~cmpResult.isNull) =>
    /\ \A f \in Elems(cmpCurrent.findings) :
         Cardinality(ClassesOf(f) \ {"removed"}) = 1
    /\ \A f \in Elems(cmpBaseline.findings) :
         (\A g \in Elems(cmpCurrent.findings) : findingKey(g) # findingKey(f))
           => "removed" \in ClassesOf(f)
    /\ \A f \in StoredFindings : Cardinality(ClassesOf(f)) <= 1

(***************************************************************************)
(* Claims about runScan's findings list (checked under SpecRun).           *)
(***************************************************************************)
\* The positions of `fs` whose fingerprint no earlier position has.
FirstPositions(fs) ==
  {k \in 1..Len(fs) : \A j \in 1..(k - 1) : Fingerprint(fs[j]) # Fingerprint(fs[k])}

\* `out` is `fs` restricted to the positions `keep`, in the order of `fs`.
IsRestriction(out, fs, keep) ==
  /\ Len(out) = Cardinality(keep)
  /\ \A k \in keep :
       out[Cardinality({j \in keep : j <= k})] = fs[k]

\* C25: the findings list of the result is a stable concatenation in target
\* order: a finding of an earlier target never comes after a finding of a
\* later one, and with the meta-analyzer the list is the produced findings
\* with only the first occurrence of every fingerprint kept, in their
\* original order (without it, the produced findings as they are).
C25_StableConcatenationInTargetOrder ==
  runPc = "returned" =>
    /\ \A i, j \in 1..Len(filteredFindings) :
         i < j => filteredFindings[i].target <= filteredFindings[j].target
    /\ IsRestriction(filteredFindings, rawFindings,
                     IF runMeta THEN FirstPositions(rawFindings)
                     ELSE 1..Len(rawFindings))

\* C25 witness: two targets that share a file were scanned with the
\* meta-analyzer, and the later target's duplicates were dropped.
C25_Witness_LaterDuplicateDropped ==
  /\ runPc = "returned"
  /\ runMeta
  /\ Len(runPlans) = 2
  /\ Len(filteredFindings) < Len(rawFindings)
  /\ \E k \in 1..Len(filteredFindings) : filteredFindings[k].target = 2
  /\ \E k \in 1..Len(rawFindings) :
       rawFindings[k].target = 2 /\ k \notin FirstPositions(rawFindings)

(***************************************************************************)
(* Claims about candidate extraction (checked under SpecExtract).          *)
(***************************************************************************)

\* C26: for every file, however many qualifying tokens it holds, candidate
\* extraction yields at most 2000 candidates.
C26_AtMostTwoThousandCandidates ==
  exPc = "returned" => exCandidates <= MaxCandidates

(***************************************************************************)
(* Further claims about the scan cache (checked under Spec).               *)
(***************************************************************************)

\* C27: a cache hit returns exactly the findings a fresh scan of the same
\* unchanged content under the current scan options would produce: what a
\* scan run with one value of options.useBehavioral stored is never returned
\* to a scan run with the other value. (The rules are taken to be those the
\* entry was computed under, so that only the option is in question.)
C27_HitEqualsFreshScanUnderCurrentOptions ==
  (phase = "running" /\ lastLookup.hit /\ curReport[lastLookup.path].done) =>
    lastLookup.findings =
      ScanFile(lastLookup.path, content[lastLookup.path], lastLookup.foundCorpus,
               useBehavioral)

\* C28: at every point after the cache has been loaded, if the entries in
\* memory differ from the entries in the cache file the dirty flag is set, and
\* while the process lives the flag goes from set to clear only in a save
\* that wrote the file.
C28_DirtyWheneverMemoryDiffersFromFile ==
  /\ []((phase = "running" /\ loaded /\ cache # disk) => dirty)
  /\ [][(phase = "running" /\ dirty /\ ~dirty' /\ lastExit'.how # "signal")
          => (lastExit'.how = "returned" /\ lastExit'.wrote /\ disk' = cache)]_vars

(***************************************************************************)
(* Claims about hashing unreadable files (checked under SpecHash).         *)
(***************************************************************************)

\* C29: a lookup made while the file's content cannot be read is never a hit,
\* whatever was stored for the file before and whenever store and lookup
\* happen.
C29_UnreadableFileNeverHits ==
  (hcLast.called /\ ~hcLast.readable) => ~hcLast.hit

(***************************************************************************)
(* Claims about watch mode (checked under SpecWatch).                      *)
(***************************************************************************)

\* C30: in watch mode at most one scan is in progress at any time: events
\* less than 300 ms apart lead to one re-scan, an event that arrives during a
\* re-scan starts no second scan alongside it, and the baseline of known
\* findings is never replaced by an older scan's findings after a newer one's.
C30_OneScanAtATime ==
  /\ Cardinality(wRunning) <= 1
  /\ wStarted <= wBursts
  /\ ~wOutOfOrder

====
